---- MODULE Spec2Model ----
(***************************************************************************)
(* A model of the AI-Music-Analyser backend: the song processing pipeline  *)
(* (app/services/audio_processing.py) with the database rows it creates,   *)
(* the per-stem analytics workers (app/utils/extract_analytics.py,         *)
(* app/utils/parallel_processor.py), the transcription retry loop          *)
(* (app/utils/extract_lyrics.py) and the lyric rewriting call              *)
(* (app/utils/lyrics_aligner.py, app/api/routes/process.py).               *)
(*                                                                         *)
(* Python values are records: None, a raised exception, a URL, a dict      *)
(* (by its set of top-level keys), so that any two of them can be compared.*)
(***************************************************************************)
EXTENDS Integers, Sequences, FiniteSets, TLC

\* ---------------------------------------------------------------- bounds
\* Earlier pipeline runs whose rows are already in the database at Init.
PriorRuns == 1
\* max_retries of transcribe_lyrics is drawn from 0..MaxRetriesBound.
MaxRetriesBound == 3
\* Longest text (in tokens) the text-generation service returns.
MaxReplyLen == 3
\* Most lines of the stored LRC text handed to the rewrite.
MaxLrcLines == 2
\* Longest array handed to downsample_array.
MaxArrLen == 5
\* target_points of downsample_array is drawn from 1..MaxTarget.
MaxTarget == 3
\* Longest list of segments handed to convert_lyrics_to_lrc.
MaxSegments == 3
\* Most requests to the /auth routes that are followed.
MaxAuthOps == 3
\* Most earlier runs behind the tables the analytics routes read.
MaxHistory == 3

\* ------------------------------------------------------- Python values
None == [none |-> TRUE]
Raise(e) == [raise |-> e]
IsRaise(v) == "raise" \in DOMAIN v
Dict(keys) == [keys |-> keys]

\* ------------------------------------------------------------ vocabulary
\* stem_names of the pipeline (audio_processing.py line 109)
Stems == {"vocals", "bass", "drums", "piano", "other"}
\* the task names of run_analysis_in_parallel
Instruments == {"vocal", "bass", "drums", "piano", "other", "guitar", "violin", "flute"}
\* The invocations of the pipeline that are followed: one alone, or the two
\* concurrently.
RunIds == {"A", "B"}
SoloRuns == {"A"}
UserIds == {1}

\* The stem file each analysis task reads (parallel_processor.py lines 13-22).
TaskFile(i) ==
    CASE i = "vocal" -> "vocals"
      [] i = "bass" -> "bass"
      [] i = "drums" -> "drums"
      [] i = "piano" -> "piano"
      [] OTHER -> "other"

\* Columns of the splits table.
UrlColumns == {"bass_audio_url", "vocals_audio_url", "piano_audio_url",
               "other_audio_url", "drum_audio_url"}
DescColumns == {"bass_description", "vocals_description", "piano_description",
                "other_description", "drum_description", "guitar_description",
                "violin_description", "flute_description"}

\* --------------------------------------------------------- object store
\* upload_file_to_s3: no bucket configured raises ValueError; a missing file
\* or a botocore ClientError is logged and answered with None; any other
\* exception of the client (boto3 wraps transfer failures in
\* S3UploadFailedError) propagates; otherwise the object's URL.  The bucket
\* name is process configuration: a run whose first upload found it set
\* finds it set in its later uploads.
UploadOutcomes == {"ok", "ClientError", "S3UploadFailedError"}

\* Mutant: no except ClientError clause, the client's error propagates.
upload_file_to_s3_no_except(bucket_set, file_exists, outcome, object_name) ==
    IF ~bucket_set THEN Raise("ValueError")
    ELSE IF ~file_exists THEN None
    ELSE IF outcome = "ClientError" THEN Raise("ClientError")
    ELSE IF outcome = "S3UploadFailedError" THEN Raise("S3UploadFailedError")
    ELSE [url |-> object_name]

upload_file_to_s3(bucket_set, file_exists, outcome, object_name) ==
    IF ~bucket_set THEN Raise("ValueError")
    ELSE IF ~file_exists THEN None
    ELSE IF outcome = "ClientError" THEN None
    ELSE IF outcome = "S3UploadFailedError" THEN Raise("S3UploadFailedError")
    ELSE [url |-> object_name]

\* ------------------------------------------------------- file discovery
AudioExts == {".mp3", ".wav", ".m4a", ".flac", ".webm"}
\* What the downloader can leave in the output directory.
Listings == {{}, {[name |-> "song", ext |-> ".part"]},
             {[name |-> "song", ext |-> ".mp3"]}}

find_audio_file(is_dir, is_file, listing) ==
    IF ~is_dir THEN (IF is_file THEN [path |-> [name |-> "song", ext |-> ""]] ELSE None)
    ELSE IF \E f \in listing : f.ext \in AudioExts
         THEN [path |-> CHOOSE f \in listing : f.ext \in AudioExts]
         ELSE None

\* ------------------------------------------------------------ analytics
\* Top-level keys of each analysis function's normal result.
OkKeys(i) ==
    CASE i = "vocal" -> {"summary", "pitch_details", "loudness_details", "vocal_quality",
                         "timbre_and_texture", "rhythm_and_rate", "performance_graph"}
      [] i = "bass" -> {"rhythm_stability", "onset_density", "dominant_note",
                        "low_end_power", "performance_graph"}
      [] i = "drums" -> {"tempo_bpm", "groove_consistency", "kick_to_snare_ratio",
                         "performance_graph"}
      [] i = "piano" -> {"average_loudness", "dynamic_variation", "average_brightness",
                         "harmonic_complexity", "performance_graph"}
      [] i = "other" -> {"average_loudness", "average_brightness", "texture_complexity",
                         "performance_graph"}
      [] i = "guitar" -> {"rhythm", "harmony_and_style", "technique", "performance_graph"}
      [] OTHER -> {"pitch", "vibrato", "articulation_and_timbre", "performance_graph"}

\* The body of an analysis function inside its try: librosa.load raises on a
\* missing file, and any later library call may raise on unusable audio.
AnalyticsBody(i, file_exists, audio_ok) ==
    IF ~file_exists THEN Raise("FileNotFoundError")
    ELSE IF ~audio_ok THEN Raise("Exception")
    ELSE Dict(OkKeys(i))

\* Mutant: the whole-track function's handler shape, which also reports the path.
ExtractStemAnalyticsWithPath(i, file_exists, audio_ok) ==
    LET b == AnalyticsBody(i, file_exists, audio_ok)
    IN IF IsRaise(b) THEN Dict({"error", "file_path"}) ELSE b

\* Mutant: no handler, the exception leaves the function.
ExtractStemAnalyticsNoCatch(i, file_exists, audio_ok) ==
    AnalyticsBody(i, file_exists, audio_ok)

\* extract_<instrument>_analytics: try: body; except Exception: {"error": ...}
ExtractStemAnalytics(i, file_exists, audio_ok) ==
    LET b == AnalyticsBody(i, file_exists, audio_ok)
    IN IF IsRaise(b) THEN Dict({"error"}) ELSE b

\* extract_music_analytics (whole track): raises when the file is missing,
\* otherwise a result dict, or an error dict that also carries the path.
MusicKeys == {"metadata", "summary", "rhythm_and_tempo", "timbre_and_spectral_properties",
              "tonality_and_harmony", "dynamics_and_loudness", "structural_analysis"}

\* Mutant: no except clause, audio the analysis cannot handle raises.
extract_music_analytics_no_catch(file_exists, audio_ok) ==
    IF ~file_exists \/ ~audio_ok THEN Raise("Exception")
    ELSE Dict(MusicKeys)

extract_music_analytics(file_exists, audio_ok) ==
    IF ~file_exists THEN Raise("FileNotFoundError")
    ELSE IF ~audio_ok THEN Dict({"error", "file_path"})
    ELSE Dict(MusicKeys)

\* The task list of run_analysis_in_parallel: (name, function, file name).
tasks ==
    <<[name |-> "vocal", func |-> "vocal", filename |-> "vocals"],
      [name |-> "bass", func |-> "bass", filename |-> "bass"],
      [name |-> "drums", func |-> "drums", filename |-> "drums"],
      [name |-> "piano", func |-> "piano", filename |-> "piano"],
      [name |-> "other", func |-> "other", filename |-> "other"],
      [name |-> "guitar", func |-> "guitar", filename |-> "other"],
      [name |-> "violin", func |-> "violin", filename |-> "other"],
      [name |-> "flute", func |-> "flute", filename |-> "other"]>>

\* Orders in which the worker processes of the pool may finish their tasks
\* (the k-th to finish is task order[k]): as submitted, reversed, and the
\* tasks on the other stem first.
FinishOrders ==
    {<<1, 2, 3, 4, 5, 6, 7, 8>>, <<8, 7, 6, 5, 4, 3, 2, 1>>, <<5, 6, 7, 8, 1, 2, 3, 4>>}

\* What the worker running task k answers.
WorkerResult(k, stem_files, bad) ==
    ExtractStemAnalytics(tasks[k].func, tasks[k].filename \in stem_files,
                         tasks[k].func \notin bad)

\* Mutant: the results are taken as the workers finish (imap_unordered).
ResultAsFinished(k, order, stem_files, bad) == WorkerResult(order[k], stem_files, bad)

\* async_results[k].get(): waits for task k, whichever tasks finished before.
ResultOfHandle(k, order, stem_files, bad) == WorkerResult(k, stem_files, bad)

\* run_analysis_in_parallel: one pool task per entry of the task list, each
\* on its stem file; res.get() re-raises a task's exception; the results are
\* zipped back to the task names.
TaskIndex == [i \in {tasks[k].name : k \in 1..Len(tasks)} |->
                 CHOOSE k \in 1..Len(tasks) : tasks[k].name = i]
all_descriptions(results_list) ==
    IF \E k \in 1..Len(tasks) : IsRaise(results_list[k])
    THEN Raise("Exception")
    ELSE [i \in DOMAIN TaskIndex |-> results_list[TaskIndex[i]]]
run_analysis_in_parallel(stem_files, bad, order) ==
    all_descriptions([k \in 1..Len(tasks) |-> ResultOfHandle(k, order, stem_files, bad)])

\* ------------------------------------------------------- stem processing
\* Mutant: no os.path.exists check, AudioSegment.from_wav raises on a missing wav.
process_and_upload_stem_no_check(wav_exists, convert_ok, outcome, name, session_id) ==
    IF ~wav_exists \/ ~convert_ok THEN Raise("CouldntDecodeError")
    ELSE LET s3_url == upload_file_to_s3(TRUE, TRUE, outcome, <<"stems", session_id, name>>)
         IN IF IsRaise(s3_url) THEN s3_url
            ELSE IF s3_url # None THEN [name |-> name, url |-> s3_url]
            ELSE None

\* process_and_upload_stem: a missing wav is not an error (None); conversion
\* may raise; the upload's None is answered with None, its URL with (name, url).
process_and_upload_stem(wav_exists, convert_ok, outcome, name, session_id) ==
    IF ~wav_exists THEN None
    ELSE IF ~convert_ok THEN Raise("CouldntDecodeError")
    ELSE LET s3_url == upload_file_to_s3(TRUE, TRUE, outcome, <<"stems", session_id, name>>)
         IN IF IsRaise(s3_url) THEN s3_url
            ELSE IF s3_url # None THEN [name |-> name, url |-> s3_url]
            ELSE None

\* ------------------------------------------------------------ separation
\* spleeter_5_stem_split(original_audio_path, stems_output_dir): runs the
\* separation model and writes <stem>.wav for the stems it yields into the
\* output sub-directory, or raises.
spleeter_5_stem_split(model_ok, yielded) ==
    IF ~model_ok THEN Raise("Exception") ELSE [written |-> yielded]

\* ------------------------------------------------------------- database
\* Autoincrement primary key of a table.
RECURSIVE MaxId(_)
MaxId(rows) ==
    IF rows = {} THEN 0
    ELSE LET x == CHOOSE y \in rows : TRUE
             m == MaxId(rows \ {x})
         IN IF x.id > m THEN x.id ELSE m
NextId(rows) == MaxId(rows) + 1

\* Mutant: song_url declared Optional[str].
SongCreateDTOOptionalUrl(title, owner_id, song_url, description) ==
    [title |-> title, owner_id |-> owner_id, song_url |-> song_url,
     lyrics |-> Dict({}), description |-> description]

\* SongCreateDTO: song_url is a required str, None is rejected by validation.
SongCreateDTO(title, owner_id, song_url, description) ==
    IF song_url = None THEN Raise("ValidationError")
    ELSE [title |-> title, owner_id |-> owner_id, song_url |-> song_url,
          lyrics |-> Dict({}), description |-> description]

\* Mutant: every Song is given the first id.
create_song_first_id(rows, song) ==
    [id |-> 1, title |-> song.title, owner_id |-> song.owner_id,
     song_url |-> song.song_url, lyrics |-> song.lyrics, description |-> song.description]

\* crud.create_song: the committed row, with its generated id.
create_song(rows, song) ==
    [id |-> NextId(rows), title |-> song.title, owner_id |-> song.owner_id,
     song_url |-> song.song_url, lyrics |-> song.lyrics, description |-> song.description]

\* The pipeline's choice of dict key for each column of the Split
\* (audio_processing.py lines 126-151).
\* Mutant: the tuple of URLs is unpacked with vocals and drums exchanged.
StemOfUrlColumnSwapped(c) ==
    CASE c = "bass_audio_url" -> "bass"
      [] c = "vocals_audio_url" -> "drums"
      [] c = "piano_audio_url" -> "piano"
      [] c = "other_audio_url" -> "other"
      [] c = "drum_audio_url" -> "vocals"

StemOfUrlColumn(c) ==
    CASE c = "bass_audio_url" -> "bass"
      [] c = "vocals_audio_url" -> "vocals"
      [] c = "piano_audio_url" -> "piano"
      [] c = "other_audio_url" -> "other"
      [] c = "drum_audio_url" -> "drums"

KeyOfDescColumn(c) ==
    CASE c = "bass_description" -> "bass"
      [] c = "vocals_description" -> "vocal"
      [] c = "piano_description" -> "piano"
      [] c = "other_description" -> "other"
      [] c = "drum_description" -> "drums"
      [] c = "guitar_description" -> "guitar"
      [] c = "violin_description" -> "violin"
      [] c = "flute_description" -> "flute"

\* Mutant: every Split is filed under the first Song.
SplitCreateDTO_first_song(song_id, urls, data) ==
    [song_id |-> 1,
     url |-> [c \in UrlColumns |-> urls[StemOfUrlColumn(c)]],
     desc |-> [c \in DescColumns |-> data[KeyOfDescColumn(c)]]]

SplitCreateDTO(song_id, urls, data) ==
    [song_id |-> song_id,
     url |-> [c \in UrlColumns |-> urls[StemOfUrlColumn(c)]],
     desc |-> [c \in DescColumns |-> data[KeyOfDescColumn(c)]]]

\* Mutant: the row's own id is taken for the Song's.
create_split_own_id(rows, split) ==
    [id |-> NextId(rows), song_id |-> NextId(rows), url |-> split.url, desc |-> split.desc]

\* crud.create_split: the committed row, with its generated id.
create_split(rows, split) ==
    [id |-> NextId(rows), song_id |-> split.song_id, url |-> split.url, desc |-> split.desc]

\* The rows earlier runs of the pipeline have left: a run that failed after
\* its Song was committed leaves the Song alone ("orphan"), a run that
\* succeeded leaves a Song and its Split ("full"); a run that failed earlier
\* leaves nothing.
\* The path the downloaders return, final_path: the sanitized title's mp3
\* inside the download directory of the run's temporary directory.
final_path(temp_dir, sanitized_title) == <<temp_dir, "original_song", sanitized_title>>

PriorSong(rows) ==
    create_song(rows, SongCreateDTO(final_path("prior", "song"), 1,
                                    [url |-> <<"songs", 1, final_path("prior", "song")>>],
                                    Dict(MusicKeys)))
PriorSplit(rows, song_id) ==
    create_split(rows, SplitCreateDTO(song_id,
        [s \in Stems |-> [url |-> <<"stems", "prior", s>>]],
        [i \in Instruments |-> Dict(OkKeys(i))]))

RECURSIVE DbAfter(_)
DbAfter(outs) ==
    IF outs = <<>> THEN [songs |-> {}, splits |-> {}]
    ELSE LET d == DbAfter(SubSeq(outs, 1, Len(outs) - 1))
             song == PriorSong(d.songs)
         IN [songs |-> d.songs \cup {song},
             splits |-> IF outs[Len(outs)] = "full"
                        THEN d.splits \cup {PriorSplit(d.splits, song.id)}
                        ELSE d.splits]
PriorDbs == {DbAfter(outs) : outs \in UNION {[1..k -> {"orphan", "full"}] : k \in 0..PriorRuns}}

\* ================================================================ state
VARIABLES
    songs,        \* the songs table: a set of rows
    splits,       \* the splits table: a set of rows
    pc,           \* per pipeline run: where full_song_processing_pipeline is
    user_id,      \* per run: the owning user id it was called with
    tmp,          \* per run: its TemporaryDirectory ("none", "exists", "removed")
    listing,      \* per run: the files in temp_dir/original_song
    par,          \* per run: the three futures of the first thread pool
    stem_files,   \* per run: the <stem>.wav files in the separation output directory
    new_song,     \* per run: id of the Song it committed (0: none)
    stem_done,    \* per run: the stem tasks of the second pool that have finished
    s3_urls,      \* per run: the dict stem name -> URL (a missing key reads None)
    all_data,     \* per run: what run_analysis_in_parallel returned
    result,       \* per run: what the pipeline returned
    faults,       \* per run (history): the failures its collaborators answered with
    sep_out,      \* per run (history): the stems the separation wrote
    db0,          \* per run (history): the tables when the run started
    tr,           \* a call of transcribe_lyrics
    rw,           \* a call of POST /process/rewrite-lyrics/{song_id}
    route,        \* a request to one of the other routes, and its answer
    ds,           \* a call of downsample_array and the graph built from it
    lrc,          \* a call of convert_lyrics_to_lrc
    auth          \* the users table and a request to one of the /auth routes

pipeVars == <<songs, splits, pc, user_id, tmp, listing, par, stem_files, new_song,
              stem_done, s3_urls, all_data, result, faults, sep_out, db0>>
vars == <<songs, splits, pc, user_id, tmp, listing, par, stem_files, new_song,
          stem_done, s3_urls, all_data, result, faults, sep_out, db0, tr, rw, route, ds, lrc, auth>>

Pending == [pending |-> TRUE]
NoFutures == [upload |-> Pending, analytics |-> Pending, spleeter |-> Pending]
NoData == [i \in Instruments |-> None]
Title == "song"

\* Mutant: every run downloads into one fixed directory.
original_title_fixed_dir(r) == final_path("tmp", Title)

\* original_title, what the download call of run r returned. The name that
\* tempfile gives the run's TemporaryDirectory differs from that of every
\* directory that exists beside it, and stands as the run's id; so does the
\* uuid4 session id of its stems.
original_title(r) == final_path(r, Title)

\* No run has started, on the tables d.
IdlePipeline(d) ==
    /\ songs = d.songs /\ splits = d.splits
    /\ pc = [r \in RunIds |-> "idle"]
    /\ user_id = [r \in RunIds |-> 0]
    /\ tmp = [r \in RunIds |-> "none"]
    /\ listing = [r \in RunIds |-> {}]
    /\ par = [r \in RunIds |-> NoFutures]
    /\ stem_files = [r \in RunIds |-> {}]
    /\ new_song = [r \in RunIds |-> 0]
    /\ stem_done = [r \in RunIds |-> {}]
    /\ s3_urls = [r \in RunIds |-> [s \in Stems |-> None]]
    /\ all_data = [r \in RunIds |-> NoData]
    /\ result = [r \in RunIds |-> Pending]
    /\ faults = [r \in RunIds |-> {}]
    /\ sep_out = [r \in RunIds |-> {}]
    /\ db0 = [r \in RunIds |-> [songs |-> {}, splits |-> {}]]

InitPipeline == \E d \in PriorDbs : IdlePipeline(d)

\* ------------------------------------------------------------- pipeline
\* The value the except handler returns.
PipelineFailureValue(r) == None

\* The except handler of the pipeline: the TemporaryDirectory is left (and
\* removed with all its contents), the session is rolled back (nothing is
\* pending: each insert commits on its own) and None is returned.
Failed(r) ==
    /\ pc' = [pc EXCEPT ![r] = "done"]
    /\ result' = [result EXCEPT ![r] = PipelineFailureValue(r)]
    /\ tmp' = [tmp EXCEPT ![r] = "removed"]
    /\ listing' = [listing EXCEPT ![r] = {}]
    /\ stem_files' = [stem_files EXCEPT ![r] = {}]

\* full_song_processing_pipeline(db, source_url, user_id) is called.
StartPipeline(r) ==
    /\ pc[r] = "idle"
    /\ \E u \in UserIds : user_id' = [user_id EXCEPT ![r] = u]
    /\ pc' = [pc EXCEPT ![r] = "download"]
    /\ tmp' = [tmp EXCEPT ![r] = "exists"]
    /\ db0' = [db0 EXCEPT ![r] = [songs |-> songs, splits |-> splits]]
    /\ UNCHANGED <<songs, splits, listing, par, stem_files, new_song, stem_done,
                   s3_urls, all_data, result, faults, sep_out, tr, rw, route, ds, lrc, auth>>

\* 1. download_from_youtube / download_from_spotify: raises, or leaves files.
Download(r) ==
    /\ pc[r] = "download"
    /\ \/ /\ Failed(r)
          /\ faults' = [faults EXCEPT ![r] = @ \cup {<<"download", "raise">>}]
       \/ /\ \E l \in Listings : listing' = [listing EXCEPT ![r] = l]
          /\ pc' = [pc EXCEPT ![r] = "find"]
          /\ UNCHANGED <<result, tmp, stem_files, faults>>
    /\ UNCHANGED <<songs, splits, user_id, par, new_song, stem_done, s3_urls,
                   all_data, sep_out, db0, tr, rw, route, ds, lrc, auth>>

\* find_audio_file(output_location); no audio file raises FileNotFoundError.
\* Then the stems directory is made and the three tasks are submitted.
FindAudio(r) ==
    /\ pc[r] = "find"
    /\ IF find_audio_file(TRUE, FALSE, listing[r]) = None
       THEN /\ Failed(r)
            /\ faults' = [faults EXCEPT ![r] = @ \cup {<<"find", "none">>}]
       ELSE /\ pc' = [pc EXCEPT ![r] = "parallel"]
            /\ UNCHANGED <<result, tmp, listing, stem_files, faults>>
    /\ UNCHANGED <<songs, splits, user_id, par, new_song, stem_done, s3_urls,
                   all_data, sep_out, db0, tr, rw, route, ds, lrc, auth>>

\* 2. The upload task of the first pool finishes.
UploadOriginalDone(r) ==
    /\ pc[r] = "parallel"
    /\ par[r].upload = Pending
    /\ \E bucket_set \in BOOLEAN, out \in UploadOutcomes :
          /\ ~bucket_set => out = "ok"
          /\ par' = [par EXCEPT ![r].upload =
                        upload_file_to_s3(bucket_set, TRUE, out,
                                          <<"songs", user_id[r], original_title(r)>>)]
          /\ faults' = [faults EXCEPT ![r] =
                           IF ~bucket_set THEN @ \cup {<<"upload", "no_bucket">>}
                           ELSE IF out = "ok" THEN @ ELSE @ \cup {<<"upload", out>>}]
    /\ UNCHANGED <<songs, splits, pc, user_id, tmp, listing, stem_files, new_song,
                   stem_done, s3_urls, all_data, result, sep_out, db0, tr, rw, route, ds, lrc, auth>>

\* The whole-track analytics task finishes.
AnalyticsDone(r) ==
    /\ pc[r] = "parallel"
    /\ par[r].analytics = Pending
    /\ \E ok \in BOOLEAN :
          /\ par' = [par EXCEPT ![r].analytics = extract_music_analytics(TRUE, ok)]
          /\ faults' = [faults EXCEPT ![r] =
                           IF ok THEN @ ELSE @ \cup {<<"analytics", "error">>}]
    /\ UNCHANGED <<songs, splits, pc, user_id, tmp, listing, stem_files, new_song,
                   stem_done, s3_urls, all_data, result, sep_out, db0, tr, rw, route, ds, lrc, auth>>

\* The separation task finishes.
SeparationDone(r) ==
    /\ pc[r] = "parallel"
    /\ par[r].spleeter = Pending
    /\ \/ /\ par' = [par EXCEPT ![r].spleeter = spleeter_5_stem_split(FALSE, {})]
          /\ faults' = [faults EXCEPT ![r] = @ \cup {<<"separation", "raise">>}]
          /\ UNCHANGED <<stem_files, sep_out>>
       \/ \E yielded \in SUBSET Stems :
             LET res == spleeter_5_stem_split(TRUE, yielded)
             IN /\ par' = [par EXCEPT ![r].spleeter = res]
                /\ stem_files' = [stem_files EXCEPT ![r] = res.written]
                /\ sep_out' = [sep_out EXCEPT ![r] = res.written]
                /\ UNCHANGED faults
    /\ UNCHANGED <<songs, splits, pc, user_id, tmp, listing, new_song,
                   stem_done, s3_urls, all_data, result, db0, tr, rw, route, ds, lrc, auth>>

\* Mutant: the separation future's result is never asked for.
FirstPoolRaisedNoSpleeter(r) ==
    IsRaise(par[r].upload) \/ IsRaise(par[r].analytics)

\* s3_upload_future.result(), analytics_future.result(), spleeter_future.result():
\* each re-raises its task's exception.
FirstPoolRaised(r) ==
    IsRaise(par[r].upload) \/ IsRaise(par[r].analytics) \/ IsRaise(par[r].spleeter)

\* Mutant: the pool is shut down without waiting, an exception leaves at once.
FirstPoolFinishedOrRaised(r) ==
    \/ par[r].upload # Pending /\ par[r].analytics # Pending /\ par[r].spleeter # Pending
    \/ IsRaise(par[r].upload) \/ IsRaise(par[r].analytics) \/ IsRaise(par[r].spleeter)

\* The three tasks of the first pool have all finished (the executor's
\* shutdown waits for them).
FirstPoolFinished(r) ==
    par[r].upload # Pending /\ par[r].analytics # Pending /\ par[r].spleeter # Pending

\* The with-block of the first pool is left once all three tasks have
\* finished (shutdown waits), with the exception a result() re-raised if any.
JoinParallel(r) ==
    /\ pc[r] = "parallel"
    /\ FirstPoolFinished(r)
    /\ IF FirstPoolRaised(r)
       THEN Failed(r)
       ELSE /\ pc' = [pc EXCEPT ![r] = "song"]
            /\ UNCHANGED <<result, tmp, listing, stem_files>>
    /\ UNCHANGED <<songs, splits, user_id, par, new_song, stem_done, s3_urls,
                   all_data, faults, sep_out, db0, tr, rw, route, ds, lrc, auth>>

\* 3. The Song is built from the upload's URL and the analytics and committed
\* (crud.create_song); a rejected DTO or a failed commit raises.  Then the
\* five stem tasks are submitted to the second pool.
CreateSong(r) ==
    /\ pc[r] = "song"
    /\ LET song_data_dto == SongCreateDTO(original_title(r), user_id[r], par[r].upload, par[r].analytics)
       IN IF IsRaise(song_data_dto)
          THEN /\ Failed(r)
               /\ UNCHANGED <<songs, new_song, faults>>
          ELSE \/ /\ songs' = songs \cup {create_song(songs, song_data_dto)}
                  /\ new_song' = [new_song EXCEPT ![r] = create_song(songs, song_data_dto).id]
                  /\ pc' = [pc EXCEPT ![r] = "stems"]
                  /\ UNCHANGED <<result, tmp, listing, stem_files, faults>>
               \/ /\ Failed(r)
                  /\ faults' = [faults EXCEPT ![r] = @ \cup {<<"db", "song">>}]
                  /\ UNCHANGED <<songs, new_song>>
    /\ UNCHANGED <<splits, user_id, par, stem_done, s3_urls, all_data, sep_out, db0, tr, rw, route, ds, lrc, auth>>

\* What the environment answered a stem task with, when it is a failure.
StemFault(s, wav_exists, convert_ok, out) ==
    IF ~wav_exists THEN {}
    ELSE IF ~convert_ok THEN {<<"convert", s>>}
    ELSE IF out # "ok" THEN {<<out, s>>}
    ELSE {}

\* 4. One stem task finishes, and as_completed hands its future to the loop:
\* result() re-raises the task's exception, a (name, url) result is stored
\* under its name.  After an exception the loop is left and the pool's
\* shutdown waits for the tasks still running, whose results nobody reads.
StemTaskDone(r, s) ==
    /\ pc[r] \in {"stems", "stems_raised"}
    /\ s \notin stem_done[r]
    /\ stem_done' = [stem_done EXCEPT ![r] = @ \cup {s}]
    /\ \E convert_ok \in BOOLEAN, out \in UploadOutcomes :
          /\ (s \notin stem_files[r] \/ ~convert_ok) => out = "ok"
          /\ s \notin stem_files[r] => convert_ok
          /\ LET res == process_and_upload_stem(s \in stem_files[r], convert_ok, out, s, r)
             IN IF pc[r] = "stems_raised"
                THEN UNCHANGED <<pc, s3_urls, faults>>
                ELSE /\ faults' = [faults EXCEPT ![r] =
                                      @ \cup StemFault(s, s \in stem_files[r], convert_ok, out)]
                     /\ IF IsRaise(res)
                        THEN /\ pc' = [pc EXCEPT ![r] = "stems_raised"]
                             /\ UNCHANGED s3_urls
                        ELSE /\ s3_urls' = [s3_urls EXCEPT ![r] =
                                               IF res # None
                                               THEN [@ EXCEPT ![res.name] = res.url]
                                               ELSE @]
                             /\ UNCHANGED pc
    /\ UNCHANGED <<songs, splits, user_id, tmp, listing, par, stem_files, new_song,
                   all_data, result, sep_out, db0, tr, rw, route, ds, lrc, auth>>

\* Mutant: the second pool is left as soon as one task has finished.
AnyStemTaskFinished(r) == stem_done[r] # {}

\* The executor's shutdown waits for every submitted stem task.
AllStemTasksFinished(r) == stem_done[r] = Stems

\* The with-block of the second pool is left once all five tasks have finished.
StemsJoin(r) ==
    /\ AllStemTasksFinished(r)
    /\ \/ /\ pc[r] = "stems"
          /\ pc' = [pc EXCEPT ![r] = "analysis"]
          /\ UNCHANGED <<result, tmp, listing, stem_files>>
       \/ /\ pc[r] = "stems_raised"
          /\ Failed(r)
    /\ UNCHANGED <<songs, splits, user_id, par, new_song, stem_done, s3_urls, all_data,
                   faults, sep_out, db0, tr, rw, route, ds, lrc, auth>>

\* 5. run_analysis_in_parallel(spleeter_output_subdir); bad: the instruments
\* whose audio the analysis cannot handle.
RunAnalysis(r) ==
    /\ pc[r] = "analysis"
    /\ \E bad \in SUBSET {i \in Instruments : TaskFile(i) \in stem_files[r]},
          order \in FinishOrders :
          LET all_7_data == run_analysis_in_parallel(stem_files[r], bad, order)
          IN IF IsRaise(all_7_data)
             THEN /\ Failed(r)
                  /\ UNCHANGED <<all_data, faults>>
             ELSE /\ all_data' = [all_data EXCEPT ![r] = all_7_data]
                  /\ faults' = [faults EXCEPT ![r] = @ \cup {<<"analysis", i>> : i \in bad}]
                  /\ pc' = [pc EXCEPT ![r] = "split"]
                  /\ UNCHANGED <<result, tmp, listing, stem_files>>
    /\ UNCHANGED <<songs, splits, user_id, par, new_song, stem_done, s3_urls,
                   sep_out, db0, tr, rw, route, ds, lrc, auth>>

\* The Split is built and committed (crud.create_split) and both ids are
\* returned, the TemporaryDirectory being removed on the way out; a failed
\* commit raises.
CreateSplit(r) ==
    /\ pc[r] = "split"
    /\ LET split_data_dto == SplitCreateDTO(new_song[r], s3_urls[r], all_data[r])
           new_split_record == create_split(splits, split_data_dto)
       IN \/ /\ splits' = splits \cup {new_split_record}
             /\ result' = [result EXCEPT ![r] =
                              [songs_id |-> new_song[r], splits_id |-> new_split_record.id]]
             /\ pc' = [pc EXCEPT ![r] = "done"]
             /\ tmp' = [tmp EXCEPT ![r] = "removed"]
             /\ listing' = [listing EXCEPT ![r] = {}]
             /\ stem_files' = [stem_files EXCEPT ![r] = {}]
             /\ UNCHANGED faults
          \/ /\ Failed(r)
             /\ faults' = [faults EXCEPT ![r] = @ \cup {<<"db", "split">>}]
             /\ UNCHANGED splits
    /\ UNCHANGED <<songs, user_id, par, new_song, stem_done, s3_urls, all_data,
                   sep_out, db0, tr, rw, route, ds, lrc, auth>>

\* The steps of a run once it has been called.
PipelineSteps(r) ==
    \/ Download(r)
    \/ FindAudio(r)
    \/ UploadOriginalDone(r)
    \/ AnalyticsDone(r)
    \/ SeparationDone(r)
    \/ JoinParallel(r)
    \/ CreateSong(r)
    \/ \E s \in Stems : StemTaskDone(r, s)
    \/ StemsJoin(r)
    \/ RunAnalysis(r)
    \/ CreateSplit(r)

\* One invocation, on the tables earlier invocations have left.
NextPipeline == \E r \in SoloRuns : StartPipeline(r) \/ PipelineSteps(r)

\* ======================================================== transcription
NoTranscription == [pc |-> "none"]

\* What one POST to the transcription service can end in: a response with a
\* status code, or a network error (timeout, connection error).
Statuses == {200, 400, 404, 500, 503}
Responses == {[kind |-> "http", status |-> c] : c \in Statuses} \cup {[kind |-> "network"]}

HTTPException(status_code) == [raise |-> "HTTPException", status_code |-> status_code]

\* Mutant: the wait grows linearly, 2 * attempt.
TwiceAttempt(n) == 2 * n

RECURSIVE Pow2(_)
Pow2(n) == IF n = 0 THEN 1 ELSE 2 * Pow2(n - 1)

\* Mutant: raise_for_status raises for server errors only.
RaisesForStatusServerOnly(c) == 500 <= c /\ c < 600

\* response.raise_for_status(): HTTPError for a 4xx or 5xx status.
RaisesForStatus(c) == 400 <= c /\ c < 600

\* Mutant: every error status is taken for a server error.
IsServerErrorAnyError(c) == 400 <= c /\ c < 600

\* if 500 <= http_err.response.status_code < 600
IsServerError(c) == 500 <= c /\ c < 600

\* Mutant: gives up one attempt early.
RetryAllowedOneLess(attempt, max_retries) == attempt < max_retries - 2

\* if attempt < max_retries - 1
RetryAllowed(attempt, max_retries) == attempt < max_retries - 1

InitTranscribe ==
    \E m \in 0..MaxRetriesBound :
        tr = [pc |-> "start", max_retries |-> m, attempt |-> 0, log |-> <<>>,
              waits |-> <<>>, outcome |-> Pending]

\* transcribe_lyrics(audio_path, max_retries): a missing file raises
\* FileNotFoundError before any request.
TrCheckFile ==
    /\ tr.pc = "start"
    /\ \E exists \in BOOLEAN :
          tr' = IF exists THEN [tr EXCEPT !.pc = "loop"]
                ELSE [tr EXCEPT !.pc = "done", !.outcome = Raise("FileNotFoundError")]
    /\ UNCHANGED <<pipeVars, rw, route, ds, lrc, auth>>

\* The retried step of an attempt: sleep 2 ** attempt and go on to the next
\* attempt, or give up with HTTP 500 on the last one.
RetryOrGiveUp(t) ==
    IF RetryAllowed(t.attempt, t.max_retries)
    THEN [t EXCEPT !.waits = Append(@, Pow2(t.attempt)), !.attempt = @ + 1]
    ELSE [t EXCEPT !.pc = "done", !.outcome = HTTPException(500)]

\* One iteration of for attempt in range(max_retries): the POST and what
\* the handlers make of its answer.
TrAttempt ==
    /\ tr.pc = "loop"
    /\ tr.attempt < tr.max_retries
    /\ \E resp \in Responses :
          LET t == [tr EXCEPT !.log = Append(@, resp)]
          IN tr' = IF resp.kind = "network" THEN RetryOrGiveUp(t)
                   ELSE IF RaisesForStatus(resp.status)
                        THEN IF IsServerError(resp.status)
                             THEN RetryOrGiveUp(t)
                             ELSE [t EXCEPT !.pc = "done",
                                            !.outcome = HTTPException(resp.status)]
                        ELSE [t EXCEPT !.pc = "done",
                                       !.outcome = Dict({"language", "duration", "original_lrc"})]
    /\ UNCHANGED <<pipeVars, rw, route, ds, lrc, auth>>

\* The loop's else: range(max_retries) is used up without a break.
TrExhausted ==
    /\ tr.pc = "loop"
    /\ tr.attempt >= tr.max_retries
    /\ tr' = [tr EXCEPT !.pc = "done", !.outcome = HTTPException(500)]
    /\ UNCHANGED <<pipeVars, rw, route, ds, lrc, auth>>

NextTranscribe == TrCheckFile \/ TrAttempt \/ TrExhausted

\* ======================================================= lyrics rewriting
NoRewrite == [pc |-> "none"]

\* A text is a sequence of tokens: a timestamp tag, a word, a space, a line break.
TimestampTags == {"[00:01.00]", "[00:02.00]"}
Whitespace == {" ", "\n"}
Tokens == TimestampTags \cup Whitespace \cup {"w"}

RECURSIVE Join(_)
\* "\n".join(lrc_lines)
Join(lines) ==
    IF lines = <<>> THEN <<>>
    ELSE IF Len(lines) = 1 THEN lines[1]
    ELSE lines[1] \o <<"\n">> \o Join(Tail(lines))

\* The LRC texts convert_lyrics_to_lrc produces: lines "[ts]text" in sorted
\* order, joined by line breaks.
LrcLine(ts, has_text) == IF has_text THEN <<ts, "w">> ELSE <<ts>>
LrcLineLists ==
    UNION {[1..n -> {LrcLine(ts, b) : ts \in TimestampTags, b \in BOOLEAN}] : n \in 0..MaxLrcLines}
TagOrder(ts) == IF ts = "[00:01.00]" THEN 1 ELSE 2
LrcTexts ==
    {Join(ls) : ls \in {l \in LrcLineLists :
                           \A k \in 1..(Len(l) - 1) : TagOrder(l[k][1]) <= TagOrder(l[k + 1][1])}}

RECURSIVE LStrip(_)
LStrip(text) ==
    IF text # <<>> /\ Head(text) \in Whitespace THEN LStrip(Tail(text)) ELSE text
RECURSIVE RStrip(_)
RStrip(text) ==
    IF text # <<>> /\ text[Len(text)] \in Whitespace
    THEN RStrip(SubSeq(text, 1, Len(text) - 1)) ELSE text
\* str.strip()
Strip(text) == RStrip(LStrip(text))

\* What the text-generation service can answer with.
Replies == UNION {[1..n -> Tokens] : n \in 0..MaxReplyLen}

\* rewrite_lyrics_with_timestamps: the reply's content, stripped; an error
\* status or a malformed body raises.
rewrite_lyrics_with_timestamps(lrc_string, http_ok, reply) ==
    IF ~http_ok THEN Raise("HTTPError") ELSE [text |-> Strip(reply)]

\* What transcribe_lyrics returns, as the lyrics of a Song.
Transcription(l) == [keys |-> {"language", "duration", "original_lrc"}, original_lrc |-> l]
\* The lyrics a stored Song can have: {} as the pipeline leaves them, or a
\* transcription.
StoredLyrics == {Dict({})} \cup {Transcription(l) : l \in LrcTexts}
\* The tables d, each Song with the lyrics lyr.
WithLyrics(d, lyr) ==
    [songs |-> {[song EXCEPT !.lyrics = lyr] : song \in d.songs}, splits |-> d.splits]
\* song.lyrics.get('original_lrc', '')
LyricsGet(lyrics) == IF "original_lrc" \in lyrics.keys THEN lyrics.original_lrc ELSE <<>>
\* crud.get_lyrics_by_song_id
get_lyrics_by_song_id(rows, song_id) ==
    LET hits == {song \in rows : song.id = song_id}
    IN IF hits = {} THEN None ELSE [lyrics |-> (CHOOSE song \in hits : TRUE).lyrics]

InitRewrite ==
    \E song_id \in 1..(PriorRuns + 1) :
        rw = [pc |-> "start", song_id |-> song_id, lrc |-> <<>>, out |-> Pending]

\* create_lyrics_rewrite: crud.get_lyrics_by_song_id; no Song answers 404.
RwLookup ==
    /\ rw.pc = "start"
    /\ LET song == get_lyrics_by_song_id(songs, rw.song_id)
       IN rw' = IF song # None
                THEN [rw EXCEPT !.pc = "call", !.lrc = LyricsGet(song.lyrics)]
                ELSE [rw EXCEPT !.pc = "done", !.out = HTTPException(404)]
    /\ UNCHANGED <<pipeVars, tr, route, ds, lrc, auth>>

\* The stored original_lrc is sent to the service and the answer returned
\* as {"lyrics": new_lyrics}.
RwCall ==
    /\ rw.pc = "call"
    /\ \E http_ok \in BOOLEAN, reply \in Replies :
          /\ ~http_ok => reply = <<>>
          /\ rw' = [rw EXCEPT !.pc = "done",
                              !.out = rewrite_lyrics_with_timestamps(rw.lrc, http_ok, reply)]
    /\ UNCHANGED <<pipeVars, tr, route, ds, lrc, auth>>

NextRewrite == RwLookup \/ RwCall

\* ============================================================== routes
NoRoute == [pc |-> "none", kind |-> "none"]

\* The ids a request can name: a User has the first, none has the second.
RequestIds == UserIds \cup {2}
\* crud.get_user
get_user(id) == IF id \in UserIds THEN [id |-> id] ELSE None

\* Mutant: a failed run is answered like a successful one.
TruthyAlways(v) == TRUE

\* Python truth of what the pipeline returned: None is false, the dict of the
\* two ids is true.
Truthy(v) == v # None /\ v # Dict({})

\* ---- POST /process/process_url
InitProcessUrl ==
    \E id \in RequestIds :
        route = [kind |-> "process_url", pc |-> "received", id |-> id,
                 tables |-> [songs |-> songs, splits |-> splits]]

\* crud.get_user; no User answers 404.
ProcessUrlLookup ==
    /\ route.kind = "process_url" /\ route.pc = "received"
    /\ route' = IF get_user(route.id) = None
                THEN [route EXCEPT !.pc = "done"] @@ [answer |-> HTTPException(404)]
                ELSE [route EXCEPT !.pc = "call"]
    /\ UNCHANGED <<pipeVars, tr, rw, ds, lrc, auth>>

\* full_song_processing_pipeline(db, song_request.url, song_request.id)
ProcessUrlCall(r) ==
    /\ route.kind = "process_url" /\ route.pc = "call"
    /\ StartPipeline(r)
    /\ user_id'[r] = route.id

\* The pipeline has returned: its failure value answers 500, anything else
\* is the body of the answer.
ProcessUrlReturn(r) ==
    /\ route.kind = "process_url" /\ route.pc = "call"
    /\ pc[r] = "done"
    /\ route' = [route EXCEPT !.pc = "done"] @@
                   [answer |-> IF Truthy(result[r]) THEN result[r] ELSE HTTPException(500)]
    /\ UNCHANGED <<pipeVars, tr, rw, ds, lrc, auth>>

\* ---- POST /process/process_audio_file
\* audio_file.filename as the client sent it: a plain name, the empty string
\* (the joined path is the directory itself), or an absolute path (the
\* joined path is that path, outside the directory).
Filenames == {"plain", "empty", "absolute"}

\* audio_processing.process_audio_file_pipeline: raises, returns the failure
\* value, or returns the two ids.
process_audio_file_pipeline(outcome) ==
    CASE outcome = "raise" -> Raise("Exception")
      [] outcome = "none" -> None
      [] outcome = "ids" -> [songs_id |-> 1, splits_id |-> 1]

\* Mutant: the directory is left where it is.
CleanUpNothing(dir) == dir

\* finally: if os.path.exists(temp_dir): shutil.rmtree(temp_dir)
CleanUp(dir) == IF dir = "exists" THEN "removed" ELSE dir

InitUpload ==
    \E id \in RequestIds, f \in Filenames :
        route = [kind |-> "process_audio_file", pc |-> "received", id |-> id,
                 filename |-> f, dir |-> "none", files |-> {}, stray |-> FALSE,
                 pending |-> None]

\* crud.get_user; no User answers 404; else temp_dir = tempfile.mkdtemp().
UploadLookup ==
    /\ route.kind = "process_audio_file" /\ route.pc = "received"
    /\ route' = IF get_user(route.id) = None
                THEN [route EXCEPT !.pc = "done"] @@ [answer |-> HTTPException(404)]
                ELSE [route EXCEPT !.pc = "save", !.dir = "exists"]
    /\ UNCHANGED <<pipeVars, tr, rw, ds, lrc, auth>>

\* The upload is copied to os.path.join(temp_dir, audio_file.filename):
\* open() raises on the directory itself; the copy can fail half way.
UploadSave ==
    /\ route.kind = "process_audio_file" /\ route.pc = "save"
    /\ \/ /\ route.filename = "empty"
          /\ route' = [route EXCEPT !.pc = "finally", !.pending = Raise("IsADirectoryError")]
       \/ /\ route.filename = "plain"
          /\ \E copied \in BOOLEAN :
                route' = [route EXCEPT !.files = {"upload"},
                                       !.pc = IF copied THEN "process" ELSE "finally",
                                       !.pending = IF copied THEN None ELSE Raise("OSError")]
       \/ /\ route.filename = "absolute"
          /\ route' = [route EXCEPT !.stray = TRUE, !.pc = "process"]
    /\ UNCHANGED <<pipeVars, tr, rw, ds, lrc, auth>>

\* The file pipeline is called; its failure value raises HTTPException(500).
UploadProcess ==
    /\ route.kind = "process_audio_file" /\ route.pc = "process"
    /\ \E outcome \in {"raise", "none", "ids"}, left \in SUBSET {"stems", "stems_mp3"} :
          LET processing_results == process_audio_file_pipeline(outcome)
          IN route' = [route EXCEPT
                        !.pc = "finally",
                        !.files = @ \cup left,
                        !.pending = IF IsRaise(processing_results) THEN processing_results
                                    ELSE IF ~Truthy(processing_results) THEN HTTPException(500)
                                    ELSE processing_results]
    /\ UNCHANGED <<pipeVars, tr, rw, ds, lrc, auth>>

\* finally: the directory is removed with its contents and the upload
\* closed; an exception that is no HTTPException is answered with 500.
UploadFinally ==
    /\ route.kind = "process_audio_file" /\ route.pc = "finally"
    /\ route' = [route EXCEPT !.pc = "done", !.dir = CleanUp(@),
                              !.files = IF CleanUp(route.dir) = "removed" THEN {} ELSE @]
                   @@ [answer |-> IF IsRaise(route.pending) /\ route.pending.raise # "HTTPException"
                                  THEN HTTPException(500) ELSE route.pending]
    /\ UNCHANGED <<pipeVars, tr, rw, ds, lrc, auth>>

\* ---- GET /analytics/splits/{instrument}/{song_id}
RouteInstruments == {"bass", "piano", "drums", "other", "vocals", "guitar", "flute", "violin"}
UrlColumnOf(i) ==
    CASE i = "bass" -> "bass_audio_url"
      [] i = "piano" -> "piano_audio_url"
      [] i = "drums" -> "drum_audio_url"
      [] i = "other" -> "other_audio_url"
      [] i = "vocals" -> "vocals_audio_url"
DescColumnOf(i) ==
    CASE i = "bass" -> "bass_description"
      [] i = "piano" -> "piano_description"
      [] i = "drums" -> "drum_description"
      [] i = "other" -> "other_description"
      [] i = "vocals" -> "vocals_description"
      [] i = "guitar" -> "guitar_description"
      [] i = "flute" -> "flute_description"
      [] i = "violin" -> "violin_description"
HasUrlColumn(i) == i \in {"bass", "piano", "drums", "other", "vocals"}

\* What the route makes of a Split row: BassInfoDTO ... ViolinInfoDTO.
InfoDTO(i, sp) ==
    IF HasUrlColumn(i)
    THEN [audio_url |-> sp.url[UrlColumnOf(i)], description |-> sp.desc[DescColumnOf(i)]]
    ELSE [description |-> sp.desc[DescColumnOf(i)]]

\* crud.get_split_<instrument>_info_by_song_id: the columns of the first
\* row that passes filter(models.Split.id == song_id), or None.
get_split_info_by_song_id(rows, i, song_id) ==
    LET hits == {sp \in rows : sp.id = song_id}
    IN IF hits = {} THEN None ELSE InfoDTO(i, CHOOSE sp \in hits : TRUE)

\* The tables after up to MaxHistory runs.
HistoryDbs ==
    {DbAfter(outs) : outs \in UNION {[1..k -> {"orphan", "full"}] : k \in 0..MaxHistory}}

InitAnalytics ==
    \E i \in RouteInstruments, song_id \in 1..(MaxHistory + 1) :
        route = [kind |-> "analytics", pc |-> "received", instrument |-> i,
                 song_id |-> song_id]

\* read_splits_for_song: None answers 404, else the DTO is the body.
ReadSplitsForSong ==
    /\ route.kind = "analytics" /\ route.pc = "received"
    /\ LET db_split_data == get_split_info_by_song_id(splits, route.instrument, route.song_id)
       IN route' = [route EXCEPT !.pc = "done"] @@
                     [answer |-> IF db_split_data = None THEN HTTPException(404)
                                 ELSE db_split_data]
    /\ UNCHANGED <<pipeVars, tr, rw, ds, lrc, auth>>

NextAnalytics == ReadSplitsForSong

\* One request to one of the routes under /process, the URL route with its
\* pipeline run.
NextRoutes ==
    \/ ProcessUrlLookup
    \/ \E r \in SoloRuns : ProcessUrlCall(r) \/ PipelineSteps(r) \/ ProcessUrlReturn(r)
    \/ UploadLookup
    \/ UploadSave
    \/ UploadProcess
    \/ UploadFinally
    \/ RwLookup
    \/ RwCall

\* ========================================================= downsampling
NoDownsample == [pc |-> "none"]

\* A float: not-a-number, minus infinity, or the fraction num/den (the mean
\* of den whole numbers).
NaN == [kind |-> "nan"]
NegInf == [kind |-> "neginf"]
Num(n) == [kind |-> "num", num |-> n, den |-> 1]
\* f0 as pyin leaves it once the unvoiced frames are set to NaN (a voiced
\* frame lies between fmin and fmax); an RMS envelope is finite.
PitchSamples == {NaN, Num(1), Num(2)}
RmsSamples == {Num(0), Num(1)}
GraphKinds == {"midi_note", "pitch_hz", "rms"}
SamplesOf(kind) == IF kind = "rms" THEN RmsSamples ELSE PitchSamples
Arrays(samples) == UNION {[1..n -> samples] : n \in 0..MaxArrLen}

\* np.nan_to_num(x, nan=0.0)
nan_to_num(x) == IF x.kind = "nan" THEN Num(0) ELSE x

RECURSIVE SumNum(_)
SumNum(chunk) == IF chunk = <<>> THEN 0 ELSE Head(chunk).num + SumNum(Tail(chunk))
\* arr.reshape(-1, chunk_size).mean(axis=1), on finite values
ChunkMeans(arr, chunk_size) ==
    [k \in 1..(Len(arr) \div chunk_size) |->
        [kind |-> "num",
         num |-> SumNum(SubSeq(arr, (k - 1) * chunk_size + 1, k * chunk_size)),
         den |-> chunk_size]]

\* downsample_array(arr, target_points)
downsample_array(arr, target_points) ==
    IF Len(arr) <= target_points THEN arr
    ELSE LET original_len == Len(arr)
             chunk_size == IF original_len \div target_points > 1
                           THEN original_len \div target_points ELSE 1
             trimmed_len == (original_len \div chunk_size) * chunk_size
             arr_trimmed == [k \in 1..trimmed_len |-> nan_to_num(arr[k])]
         IN ChunkMeans(arr_trimmed, chunk_size)

\* librosa.hz_to_midi: 12 * (log2(hz) - log2(440)) + 69; NaN stays NaN, zero
\* goes to minus infinity, an audible frequency to a positive note number.
hz_to_midi(x) ==
    IF x.kind = "num" THEN (IF x.num = 0 THEN NegInf ELSE [kind |-> "num", num |-> x.num, den |-> x.den, unit |-> "midi"])
    ELSE x

\* Mutant: anything but zero is kept.
IsPositiveNonZero(p) == p # Num(0)

\* p > 0: false for NaN and for minus infinity
IsPositive(p) == p.kind = "num" /\ p.num > 0

\* The "values" of a performance_graph, from the downsampled series.
GraphValues(kind, series) ==
    CASE kind = "midi_note" ->
            [k \in 1..Len(series) |->
                IF IsPositive(hz_to_midi(series[k])) THEN hz_to_midi(series[k]) ELSE None]
      [] kind = "pitch_hz" ->
            [k \in 1..Len(series) |-> IF IsPositive(series[k]) THEN series[k] ELSE None]
      [] kind = "rms" -> series

InitDownsample ==
    \E kind \in GraphKinds :
        \E arr \in Arrays(SamplesOf(kind)), t \in 1..MaxTarget :
            ds = [pc |-> "start", kind |-> kind, arr |-> arr, target_points |-> t]

\* graph_values = downsample_array(series, target_points)
DsCall ==
    /\ ds.pc = "start"
    /\ ds' = [pc |-> "graph", kind |-> ds.kind, arr |-> ds.arr,
              target_points |-> ds.target_points,
              out |-> downsample_array(ds.arr, ds.target_points)]
    /\ UNCHANGED <<pipeVars, tr, rw, route, lrc, auth>>

\* The performance_graph of the blob is built from it.
DsGraph ==
    /\ ds.pc = "graph"
    /\ ds' = [pc |-> "done", kind |-> ds.kind, arr |-> ds.arr,
              target_points |-> ds.target_points, out |-> ds.out,
              values |-> GraphValues(ds.kind, ds.out)]
    /\ UNCHANGED <<pipeVars, tr, rw, route, lrc, auth>>

NextDownsample == DsCall \/ DsGraph

\* ========================================================== LRC conversion
\* Strings are sequences of character codes, times are in hundredths of a
\* second (the two decimals the format keeps).
NoLrc == [pc |-> "none"]

\* Start times of segments: 0 s, 1.5 s, 99 min 59 s and 100 min.
StartTimes == {0, 150, 599900, 600000}
\* Texts of segments: empty, "la", and " a\nb" (a blank, a newline inside).
Texts == {<<>>, <<108, 97>>, <<32, 97, 10, 98>>}
\* A segment is a dict; item.get("start") is None when the key is missing.
LrcSegments ==
    {[start |-> s, text |-> t] : s \in StartTimes, t \in Texts}
        \cup {[text |-> t] : t \in Texts}
HasStart(item) == "start" \in DOMAIN item

RECURSIVE Digits(_)
Digits(n) == IF n < 10 THEN <<48 + n>> ELSE Digits(n \div 10) \o <<48 + (n % 10)>>
\* {:02d}: at least two digits, zero padded.
Pad2(n) == IF n < 10 THEN <<48>> \o Digits(n) ELSE Digits(n)

\* format_timestamp(seconds): [MM:SS.hh], the minutes growing past two digits.
format_timestamp(seconds) ==
    LET minutes == seconds \div 6000
        sec == seconds % 6000
    IN <<91>> \o Pad2(minutes) \o <<58>> \o Pad2(sec \div 100) \o <<46>>
            \o Pad2(sec % 100) \o <<93>>

\* text.strip().replace('"', '').replace('\n', ' ')
StripChars == {32, 10, 9, 13}
RECURSIVE StripLeft(_)
StripLeft(t) == IF t # <<>> /\ Head(t) \in StripChars THEN StripLeft(Tail(t)) ELSE t
RECURSIVE StripRight(_)
StripRight(t) ==
    IF t # <<>> /\ t[Len(t)] \in StripChars THEN StripRight(SubSeq(t, 1, Len(t) - 1)) ELSE t
NotQuote(c) == c # 34
CleanText(text) ==
    LET stripped == SelectSeq(StripRight(StripLeft(text)), NotQuote)
    IN [k \in 1..Len(stripped) |-> IF stripped[k] = 10 THEN 32 ELSE stripped[k]]

\* The order of Python strings: by code point, a prefix first.
RECURSIVE StrLess(_, _)
StrLess(a, b) ==
    IF b = <<>> THEN FALSE
    ELSE IF a = <<>> THEN TRUE
    ELSE IF Head(a) # Head(b) THEN Head(a) < Head(b)
    ELSE StrLess(Tail(a), Tail(b))

\* lrc_lines.sort()
RECURSIVE InsertLine(_, _)
InsertLine(line, sorted) ==
    IF sorted = <<>> THEN <<line>>
    ELSE IF StrLess(line, Head(sorted)) THEN <<line>> \o sorted
    ELSE <<Head(sorted)>> \o InsertLine(line, Tail(sorted))
RECURSIVE SortLines(_)
SortLines(lines) ==
    IF lines = <<>> THEN <<>>
    ELSE InsertLine(lines[Len(lines)], SortLines(SubSeq(lines, 1, Len(lines) - 1)))

\* "\n".join(lrc_lines)
RECURSIVE JoinLines(_)
JoinLines(lines) ==
    IF lines = <<>> THEN <<>>
    ELSE IF Len(lines) = 1 THEN lines[1]
    ELSE lines[1] \o <<10>> \o JoinLines(Tail(lines))

\* The loop over the segments: one line per segment that has a start.
RECURSIVE lrc_lines(_)
lrc_lines(segments) ==
    IF segments = <<>> THEN <<>>
    ELSE LET item == segments[Len(segments)]
             before == lrc_lines(SubSeq(segments, 1, Len(segments) - 1))
         IN IF ~HasStart(item) THEN before
            ELSE Append(before, format_timestamp(item.start) \o CleanText(item.text))

convert_lyrics_to_lrc(segments) == JoinLines(SortLines(lrc_lines(segments)))

InitLrc ==
    \E n \in 0..MaxSegments : \E segments \in [1..n -> LrcSegments] :
        lrc = [pc |-> "start", segments |-> segments]

\* convert_lyrics_to_lrc(segments) is called and returns.
LrcCall ==
    /\ lrc.pc = "start"
    /\ lrc' = [pc |-> "done", segments |-> lrc.segments,
               out |-> convert_lyrics_to_lrc(lrc.segments)]
    /\ UNCHANGED <<pipeVars, tr, rw, route, ds, auth>>

NextLrc == LrcCall

\* ========================================================= authentication
\* The users table and requests to POST /auth/signup, /auth/signin,
\* /auth/google and GET /auth/users/me, two of them in flight at a time (the
\* endpoints are sync functions run on the server's thread pool).
Slots == {1, 2}
NoAuth == [pc |-> "none"]
Emails == {[local |-> "a", domain |-> "x"], [local |-> "a", domain |-> "y"],
           [local |-> "b", domain |-> "x"]}
Usernames == {"a", "b"}
GooglePassword == "dummypassword_from_google_signup"
Passwords == {"pw", "wrong", GooglePassword}

\* app.security (get_password_hash, verify_password, create_access_token):
\* a hash that only its password verifies, and a signed token carrying the
\* claims it was made from.
get_password_hash(password) == [hash |-> password]
verify_password(password, hashed_password) == hashed_password = [hash |-> password]
create_access_token(data) == [sub |-> data.sub, valid |-> TRUE]
\* jwt.decode: JWTError for a token with a bad signature or past its expiry.
jwt_decode(token) == IF token.valid THEN [sub |-> token.sub] ELSE Raise("JWTError")
\* str(user.id) and int(user_id)
str(n) == Digits(n)
RECURSIVE int(_)
int(s) == IF s = <<>> THEN 0 ELSE 10 * int(SubSeq(s, 1, Len(s) - 1)) + (s[Len(s)] - 48)

UserCreate(email, username, password) ==
    [email |-> email, username |-> username, password |-> password]

\* crud.get_user, crud.get_user_by_email, crud.get_user_by_username
get_user_by_id(rows, id) ==
    IF \E u \in rows : u.id = id THEN CHOOSE u \in rows : u.id = id ELSE None
get_user_by_email(rows, email) ==
    IF \E u \in rows : u.email = email THEN CHOOSE u \in rows : u.email = email ELSE None
get_user_by_username(rows, username) ==
    IF \E u \in rows : u.username = username
    THEN CHOOSE u \in rows : u.username = username ELSE None

\* Mutant: the columns are not declared unique.
create_user_no_unique(rows, user) ==
    [id |-> NextId(rows), email |-> user.email, username |-> user.username,
     hashed_password |-> get_password_hash(user.password)]

\* crud.create_user: the commit raises IntegrityError when the email or the
\* username is taken (both columns are unique), otherwise the row with its
\* generated id.
create_user(rows, user) ==
    IF \E u \in rows : u.email = user.email \/ u.username = user.username
    THEN Raise("IntegrityError")
    ELSE [id |-> NextId(rows), email |-> user.email, username |-> user.username,
          hashed_password |-> get_password_hash(user.password)]

\* What a request is answered with.
Answer(status_code) == [status_code |-> status_code]
TokenAnswer(user) ==
    [status_code |-> 200, access_token |-> create_access_token([sub |-> str(user.id)])]
UserAnswer(user) == [status_code |-> 200, user |-> user]

\* The requests a client may send.
Credentials == {[email |-> e] : e \in Emails} \cup {[invalid |-> TRUE]}
BearerTokens == {[sub |-> str(i), valid |-> v] : i \in 1..MaxAuthOps, v \in BOOLEAN}
AuthRequests ==
    {[kind |-> "signup", pc |-> "received", answer |-> None, email |-> e, username |-> u]
        : e \in Emails, u \in Usernames}
    \cup {[kind |-> "google", pc |-> "received", answer |-> None, credential |-> c]
            : c \in Credentials}
    \cup {[kind |-> "signin", pc |-> "received", answer |-> None, username |-> u,
           password |-> p] : u \in Usernames, p \in Passwords}
    \cup {[kind |-> "me", pc |-> "received", answer |-> None, token |-> t]
            : t \in BearerTokens}

InitAuth ==
    auth = [users |-> {}, reqs |-> [k \in Slots |-> [kind |-> "none", pc |-> "idle", answer |-> None]], n |-> 0, issued |-> {}]

Finish(k, answer) == [auth EXCEPT !.reqs[k].pc = "done", !.reqs[k].answer = answer]
FinishWithToken(a, k, user) ==
    [a EXCEPT !.reqs[k] = [auth.reqs[k] EXCEPT !.pc = "done", !.answer = TokenAnswer(user)],
              !.issued = @ \cup {[access_token |-> TokenAnswer(user).access_token,
                                  email |-> user.email]}]
InFlight(k, kind, at) == auth.reqs[k].kind = kind /\ auth.reqs[k].pc = at

\* A client sends a request; it takes the place of one that was answered.
AuthRequest(k) ==
    /\ auth.reqs[k].pc \in {"idle", "done"}
    /\ auth.n < MaxAuthOps
    /\ \E req \in AuthRequests : auth' = [auth EXCEPT !.reqs[k] = req, !.n = @ + 1]
    /\ UNCHANGED <<pipeVars, tr, rw, route, ds, lrc>>

\* signup: 400 when a User has the email.
SignupLookup(k) ==
    /\ InFlight(k, "signup", "received")
    /\ LET db_user == get_user_by_email(auth.users, auth.reqs[k].email)
       IN auth' = IF Truthy(db_user) THEN Finish(k, Answer(400))
                  ELSE [auth EXCEPT !.reqs[k].pc = "create"]
    /\ UNCHANGED <<pipeVars, tr, rw, route, ds, lrc>>

\* signup: crud.create_user; its IntegrityError is not handled (500).
SignupCreate(k) ==
    /\ InFlight(k, "signup", "create")
    /\ LET user == create_user(auth.users,
                               UserCreate(auth.reqs[k].email, auth.reqs[k].username, "pw"))
       IN auth' = IF IsRaise(user) THEN Finish(k, Answer(500))
                  ELSE [Finish(k, UserAnswer(user)) EXCEPT !.users = @ \cup {user}]
    /\ UNCHANGED <<pipeVars, tr, rw, route, ds, lrc>>

\* google_auth: the credential is verified (an invalid one raises an
\* HTTPException built without a status code, which the server answers as an
\* internal error) and the User with its email is looked up.
GoogleLookup(k) ==
    /\ InFlight(k, "google", "received")
    /\ LET credential == auth.reqs[k].credential
       IN auth' = IF "invalid" \in DOMAIN credential THEN Finish(k, Answer(500))
                  ELSE LET user == get_user_by_email(auth.users, credential.email)
                       IN IF Truthy(user) THEN FinishWithToken(auth, k, user)
                          ELSE [auth EXCEPT !.reqs[k].pc = "create"]
    /\ UNCHANGED <<pipeVars, tr, rw, route, ds, lrc>>

\* google_auth: no User has the email; one is created under the local part
\* of the email as username, and the token is issued.
GoogleCreate(k) ==
    /\ InFlight(k, "google", "create")
    /\ LET email == auth.reqs[k].credential.email
           user == create_user(auth.users, UserCreate(email, email.local, GooglePassword))
       IN auth' = IF IsRaise(user) THEN Finish(k, Answer(500))
                  ELSE FinishWithToken([auth EXCEPT !.users = @ \cup {user}], k, user)
    /\ UNCHANGED <<pipeVars, tr, rw, route, ds, lrc>>

\* signin: 401 for an unknown username or a wrong password, else a token.
Signin(k) ==
    /\ InFlight(k, "signin", "received")
    /\ LET user == get_user_by_username(auth.users, auth.reqs[k].username)
       IN auth' = IF ~Truthy(user)
                     \/ ~verify_password(auth.reqs[k].password, user.hashed_password)
                  THEN Finish(k, Answer(401))
                  ELSE FinishWithToken(auth, k, user)
    /\ UNCHANGED <<pipeVars, tr, rw, route, ds, lrc>>

\* get_current_user of routes/auth.py, behind GET /auth/users/me.
get_current_user(rows, token) ==
    LET payload == jwt_decode(token)
    IN IF IsRaise(payload) THEN Answer(401)
       ELSE LET user == get_user_by_id(rows, int(payload.sub))
            IN IF user = None THEN Answer(401) ELSE UserAnswer(user)

ReadCurrentUser(k) ==
    /\ InFlight(k, "me", "received")
    /\ auth' = Finish(k, get_current_user(auth.users, auth.reqs[k].token))
    /\ UNCHANGED <<pipeVars, tr, rw, route, ds, lrc>>

NextAuth ==
    \E k \in Slots :
        \/ AuthRequest(k)
        \/ SignupLookup(k) \/ SignupCreate(k)
        \/ GoogleLookup(k) \/ GoogleCreate(k)
        \/ Signin(k)
        \/ ReadCurrentUser(k)

\* ======================================================= specifications
Init == InitPipeline /\ tr = NoTranscription /\ rw = NoRewrite /\ route = NoRoute /\ ds = NoDownsample /\ lrc = NoLrc /\ auth = NoAuth
Next == NextPipeline
Spec == Init /\ [][Next]_vars

\* transcribe_lyrics leaves the tables alone: it is followed on empty tables.
InitTr ==
    IdlePipeline(DbAfter(<<>>)) /\ InitTranscribe /\ rw = NoRewrite /\ route = NoRoute /\ ds = NoDownsample /\ lrc = NoLrc /\ auth = NoAuth
SpecTranscribe == InitTr /\ [][NextTranscribe]_vars

\* The rewrite route, on the tables earlier runs have left and the lyrics
\* stored for their Songs.
InitRw ==
    /\ \E d \in PriorDbs, lyr \in StoredLyrics : IdlePipeline(WithLyrics(d, lyr))
    /\ tr = NoTranscription /\ InitRewrite /\ route = NoRoute /\ ds = NoDownsample /\ lrc = NoLrc /\ auth = NoAuth
SpecRewrite == InitRw /\ [][NextRewrite]_vars

\* transcribe_lyrics is one sequential loop: each request has a timeout and
\* each sleep is finite, so a step that is possible is eventually taken.
SpecTranscribeLive == InitTr /\ [][NextTranscribe]_vars /\ WF_vars(NextTranscribe)

\* A request to POST /process/process_url, to POST /process/process_audio_file
\* or to POST /process/rewrite-lyrics/{song_id}, on the tables earlier runs
\* have left.
InitRoutes ==
    /\ tr = NoTranscription /\ ds = NoDownsample /\ lrc = NoLrc /\ auth = NoAuth
    /\ \/ InitPipeline /\ rw = NoRewrite /\ (InitProcessUrl \/ InitUpload)
       \/ /\ \E d \in PriorDbs, lyr \in StoredLyrics : IdlePipeline(WithLyrics(d, lyr))
          /\ route = NoRoute /\ InitRewrite
SpecRoutes == InitRoutes /\ [][NextRoutes]_vars

\* A request to GET /analytics/splits/{instrument}/{song_id}, on the tables
\* a history of successful and failed runs has left.
InitAn ==
    /\ \E d \in HistoryDbs : IdlePipeline(d)
    /\ tr = NoTranscription /\ rw = NoRewrite /\ ds = NoDownsample /\ lrc = NoLrc /\ auth = NoAuth
    /\ InitAnalytics
SpecAnalytics == InitAn /\ [][NextAnalytics]_vars

InitDs ==
    /\ IdlePipeline(DbAfter(<<>>)) /\ tr = NoTranscription /\ rw = NoRewrite /\ route = NoRoute
    /\ InitDownsample /\ lrc = NoLrc /\ auth = NoAuth
SpecDownsample == InitDs /\ [][NextDownsample]_vars

InitLc ==
    /\ IdlePipeline(DbAfter(<<>>)) /\ tr = NoTranscription /\ rw = NoRewrite /\ route = NoRoute
    /\ ds = NoDownsample /\ InitLrc /\ auth = NoAuth
SpecLrc == InitLc /\ [][NextLrc]_vars

InitAu ==
    /\ IdlePipeline(DbAfter(<<>>)) /\ tr = NoTranscription /\ rw = NoRewrite /\ route = NoRoute
    /\ ds = NoDownsample /\ lrc = NoLrc /\ InitAuth
SpecAuth == InitAu /\ [][NextAuth]_vars

\* Two invocations of the pipeline at once (the routes call it from the
\* server's thread pool), on the tables earlier invocations have left.  To
\* keep the interleavings of two runs within reach, the environment of this
\* specification fails in fewer ways: a download or the separation may raise,
\* the conversion of the vocals stem may raise, either commit may fail, and
\* a separation that returns yields all five stems.
CalmFaults ==
    {<<"download", "raise">>, <<"separation", "raise">>, <<"convert", "vocals">>,
     <<"db", "song">>, <<"db", "split">>}
Calm ==
    \A r \in RunIds :
        /\ faults[r] \subseteq CalmFaults
        /\ par[r].spleeter = Pending \/ IsRaise(par[r].spleeter) \/ sep_out[r] = Stems
        /\ listing[r] \in {{}, {[name |-> "song", ext |-> ".mp3"]}}

\* The tables the two runs start on: empty, or a failed and a successful
\* earlier run, after which Song ids and Split ids differ.
ConcurrentDbs == {DbAfter(<<>>), DbAfter(<<"orphan", "full">>)}
InitCo ==
    (\E d \in ConcurrentDbs : IdlePipeline(d)) /\ tr = NoTranscription /\ rw = NoRewrite /\ route = NoRoute /\ ds = NoDownsample /\ lrc = NoLrc /\ auth = NoAuth
NextConcurrent == \E r \in RunIds : (StartPipeline(r) \/ PipelineSteps(r)) /\ Calm'
SpecConcurrent == InitCo /\ [][NextConcurrent]_vars

\* =============================================================== claims
Done(r) == pc[r] = "done"
Succeeded(r) == "songs_id" \in DOMAIN result[r] /\ "splits_id" \in DOMAIN result[r]
\* The rows a run has added since it started (none before it starts).
CreatedSongs(r) == IF pc[r] = "idle" THEN {} ELSE songs \ db0[r].songs
CreatedSplits(r) == IF pc[r] = "idle" THEN {} ELSE splits \ db0[r].splits

\* The failures of steps 1-3 (download, file lookup, upload / analyze / separate)
\* that the pipeline does not recover from.
Step123Faults ==
    {<<"download", "raise">>, <<"find", "none">>, <<"separation", "raise">>,
     <<"upload", "no_bucket">>, <<"upload", "ClientError">>,
     <<"upload", "S3UploadFailedError">>}
\* Every failure that raises in the pipeline.
AbortFaults ==
    Step123Faults \cup {<<"db", "song">>, <<"db", "split">>}
        \cup {<<"convert", s>> : s \in Stems} \cup {<<"S3UploadFailedError", s>> : s \in Stems}
Aborted(r) == faults[r] \cap AbortFaults # {}
\* The analyses that failed: on a missing stem file, or on audio they cannot handle.
AnalysisFailed(r, i) == TaskFile(i) \notin sep_out[r] \/ <<"analysis", i>> \in faults[r]
TheSplit(r) == CHOOSE sp \in splits : sp.id = result[r].splits_id

\* C1: the pipeline never raises to its caller: a finished run has returned
\* either None or both ids, and then exactly one Split has the returned
\* splits_id and its song_id is the returned songs_id; a run that has not
\* finished has returned nothing.
C1_BothIdsOrNone ==
    \A r \in RunIds :
        /\ Done(r) <=> result[r] # Pending
        /\ Done(r) =>
              \/ result[r] = None
              \/ /\ DOMAIN result[r] = {"songs_id", "splits_id"}
                 /\ \E sp \in splits :
                       /\ sp.id = result[r].splits_id
                       /\ sp.song_id = result[r].songs_id
                       /\ \A other \in splits : other.id = sp.id => other = sp
                 /\ \E song \in songs : song.id = result[r].songs_id

\* C1 witness: a run returned both ids, and the two ids differ (an earlier
\* run had left a Song without a Split).
C1_Witness ==
    \E r \in RunIds : Done(r) /\ Succeeded(r) /\ result[r].songs_id # result[r].splits_id

\* Each Split's song_id is the id of a Song in the table.
ForeignKey == \A sp \in splits : \E song \in songs : song.id = sp.song_id
\* The source was acquired: the download did not fail and left an audio file.
ValidSource(r) == faults[r] \cap {<<"download", "raise">>, <<"find", "none">>} = {}
\* Nothing the Song insert needs failed.
SongStagesOk(r) == faults[r] \cap (Step123Faults \cup {<<"db", "song">>}) = {}

\* C2 as stated: every finished run on a valid audio source has created
\* exactly one Song row and at most one Split row, and every Split references
\* an existing Song.
C2_Original ==
    /\ ForeignKey
    /\ \A r \in RunIds :
          (Done(r) /\ ValidSource(r)) =>
              Cardinality(CreatedSongs(r)) = 1 /\ Cardinality(CreatedSplits(r)) <= 1

\* C2 amended: a run creates at most one Song row and at most one Split row;
\* a finished run has created exactly one Song row when the download, the
\* upload of the original, the separation and the Song insert all succeeded
\* and none otherwise; every Split references an existing Song.
C2_Amended ==
    /\ ForeignKey
    /\ \A r \in RunIds :
          /\ Cardinality(CreatedSongs(r)) <= 1
          /\ Cardinality(CreatedSplits(r)) <= 1
          /\ Done(r) => Cardinality(CreatedSongs(r)) = (IF SongStagesOk(r) THEN 1 ELSE 0)

\* C2 witness: a finished run on a valid source that created one Song and one
\* Split, in a database that already held rows.
C2_Witness ==
    \E r \in RunIds :
        /\ Done(r) /\ ValidSource(r) /\ db0[r].splits # {}
        /\ Cardinality(CreatedSongs(r)) = 1 /\ Cardinality(CreatedSplits(r)) = 1

\* C3 as stated: when the pipeline has returned None, every Song the run
\* created has a Split (no Song is exposed without its Split).
C3_Atomic ==
    \A r \in RunIds :
        (Done(r) /\ result[r] = None) =>
            \A song \in CreatedSongs(r) : \E sp \in splits : sp.song_id = song.id

\* C4: a run in which the download, the file lookup, the upload of the
\* original or the separation failed has returned None when it finishes, and
\* never adds a row: the tables are as they were when it started.
C4_NoRowOnEarlyFailure ==
    \A r \in RunIds :
        faults[r] \cap Step123Faults # {} =>
            /\ songs = db0[r].songs /\ splits = db0[r].splits
            /\ Done(r) => result[r] = None

\* C4 witness: the separation raised while the upload and the analytics went
\* well, the run has finished, and the tables held rows before.
C4_Witness ==
    \E r \in RunIds :
        /\ Done(r) /\ faults[r] = {<<"separation", "raise">>}
        /\ db0[r].songs # {}

\* C5: absent stem files never fail the run: a finished run in which nothing
\* raised has succeeded, and its Split holds None for each stem the
\* separation did not write and the upload's URL for each stem that was
\* written and uploaded.
C5_MissingStemsTolerated ==
    \A r \in RunIds :
        (Done(r) /\ ~Aborted(r)) =>
            /\ Succeeded(r)
            /\ \A c \in UrlColumns :
                  LET s == StemOfUrlColumn(c)
                  IN /\ s \notin sep_out[r] => TheSplit(r).url[c] = None
                     /\ (s \in sep_out[r] /\ <<"ClientError", s>> \notin faults[r])
                           => TheSplit(r).url[c] = [url |-> <<"stems", r, s>>]

\* C5 witness: a run succeeded although three of the five stems were absent.
C5_Witness ==
    \E r \in RunIds :
        Done(r) /\ Succeeded(r) /\ faults[r] = {} /\ sep_out[r] = {"bass", "other"}

\* C6: run_analysis_in_parallel returns, for every set of failing analyses, a
\* mapping that gives each failing instrument a blob with an error field and
\* every other instrument its normal blob; the failures do not fail the run,
\* which stores the mapping in the Split it persists.
C6_AnalysisFailuresContained ==
    \A r \in RunIds :
        /\ pc[r] = "split" =>
              \A i \in Instruments :
                  IF AnalysisFailed(r, i)
                  THEN "error" \in all_data[r][i].keys
                  ELSE all_data[r][i] = Dict(OkKeys(i))
        /\ (Done(r) /\ ~Aborted(r)) =>
              /\ Succeeded(r)
              /\ \A c \in DescColumns :
                    LET i == KeyOfDescColumn(c)
                    IN IF AnalysisFailed(r, i)
                       THEN "error" \in TheSplit(r).desc[c].keys
                       ELSE TheSplit(r).desc[c] = Dict(OkKeys(i))

\* C6 witness: the analyses of three instruments failed on audio that was
\* there, and the run still persisted its Split.
C6_Witness ==
    \E r \in RunIds :
        /\ Done(r) /\ Succeeded(r) /\ sep_out[r] = Stems
        /\ faults[r] = {<<"analysis", "vocal">>, <<"analysis", "guitar">>, <<"analysis", "drums">>}

\* C7: each of the eight analysis functions, run on a stem file that does not
\* exist, returns a dict whose only key is error, and does not raise: the
\* analysis stage of a run with missing stem files always returns.
C7_MissingFileErrorOnly ==
    \A r \in RunIds :
        /\ pc[r] = "split" =>
              \A i \in Instruments :
                  TaskFile(i) \notin sep_out[r] => all_data[r][i] = Dict({"error"})
        /\ (Done(r) /\ ~Aborted(r) /\ sep_out[r] # Stems) => all_data[r] # NoData

\* C7 witness: the analysis stage has run with no stem file at all, so all
\* eight functions were called on a missing file.
C7_Witness ==
    \E r \in RunIds : pc[r] = "split" /\ sep_out[r] = {}

\* ------------------------------------------------- transcription claims
Is5xx(resp) == resp.kind = "http" /\ 500 <= resp.status /\ resp.status < 600
Is4xx(resp) == resp.kind = "http" /\ 400 <= resp.status /\ resp.status < 500

\* C8: as long as every request was answered with a 5xx status, no more than
\* max_retries requests have been made; when the call ends in that case it
\* has made exactly max_retries requests and raises HTTP 500, never a
\* transcript.
C8_ExactlyMaxRetriesOn5xx ==
    (tr.pc # "none" /\ \A k \in 1..Len(tr.log) : Is5xx(tr.log[k])) =>
        /\ Len(tr.log) <= tr.max_retries
        /\ (tr.pc = "done" /\ tr.outcome # Raise("FileNotFoundError")) =>
              /\ Len(tr.log) = tr.max_retries
              /\ tr.outcome = HTTPException(500)

\* C8 witness: three 5xx answers with max_retries = 3, and the call has ended.
C8_Witness ==
    /\ tr.pc = "done" /\ tr.max_retries = 3 /\ Len(tr.log) = 3
    /\ \A k \in 1..3 : Is5xx(tr.log[k])

\* C9: a 4xx answer is the last request of the call: the call has ended
\* with an error carrying that status code, and it has slept only after the
\* attempts before it.
C9_NoRetryOn4xx ==
    tr.pc # "none" =>
        \A k \in 1..Len(tr.log) :
            Is4xx(tr.log[k]) =>
                /\ k = Len(tr.log)
                /\ tr.pc = "done"
                /\ tr.outcome = HTTPException(tr.log[k].status)
                /\ Len(tr.waits) = k - 1

\* C9 witness: a 404 on the second of three permitted attempts.
C9_Witness ==
    /\ tr.pc = "done" /\ tr.max_retries = 3 /\ Len(tr.log) = 2
    /\ tr.log[2] = [kind |-> "http", status |-> 404]

\* ------------------------------------------------------- rewrite claims
IsTimestamp(tok) == tok \in TimestampTags
TimestampsOf(text) == SelectSeq(text, IsTimestamp)

\* C10 as stated: the rewritten text has the input's timestamps, as many and
\* in the same order, whatever the service answered.
C10_TimestampsPreserved ==
    (rw.pc = "done" /\ "text" \in DOMAIN rw.out) =>
        TimestampsOf(rw.out.text) = TimestampsOf(rw.lrc)

\* -------------------------------------------------- downsampling claims
HasNaN(series) == \E k \in 1..Len(series) : series[k] = NaN

\* C11 as stated: the series downsample_array returns is never longer than
\* target_points.
C11_LengthAtMostTarget ==
    ds.pc \in {"graph", "done"} => Len(ds.out) <= ds.target_points

\* C12 as stated: neither the series downsample_array returns nor the
\* performance_graph built from it holds a not-a-number value.
C12_Original ==
    /\ ds.pc \in {"graph", "done"} => ~HasNaN(ds.out)
    /\ ds.pc = "done" => ~HasNaN(ds.values)

\* C12 amended: the values of a performance_graph never hold a not-a-number
\* value: where the series is no longer than target_points a not-a-number
\* pitch is exported as None, and in a longer series it counts as zero in the
\* mean of its chunk.  downsample_array itself returns a series that is no
\* longer than target_points as it is, so its output holds a not-a-number
\* value exactly when such an input does.
C12_Amended ==
    /\ ds.pc = "done" =>
          /\ ~HasNaN(ds.values)
          /\ Len(ds.arr) <= ds.target_points =>
                \A k \in 1..Len(ds.arr) : ds.arr[k] = NaN => ds.values[k] = None
    /\ ds.pc \in {"graph", "done"} =>
          (HasNaN(ds.out) <=> (Len(ds.arr) <= ds.target_points /\ HasNaN(ds.arr)))

\* C12 witness: a pitch series no longer than target_points with a
\* not-a-number entry has been downsampled and exported with None in its place.
C12_Witness ==
    /\ ds.pc = "done" /\ ds.kind = "midi_note"
    /\ Len(ds.arr) <= ds.target_points /\ HasNaN(ds.arr)
    /\ \E k \in 1..Len(ds.values) : ds.values[k] = None

\* --------------------------------------------------------- route claims
\* C13: once a processing request has finished, its scratch directory and
\* everything in it are gone: the TemporaryDirectory of a pipeline run that
\* has returned, with the download and the stems in it, and the directory the
\* upload route made, whatever the route answered.
C13_ScratchRemoved ==
    /\ \A r \in RunIds :
          Done(r) => tmp[r] = "removed" /\ listing[r] = {} /\ stem_files[r] = {}
    /\ (route.pc = "done" /\ route.kind = "process_audio_file") =>
          /\ route.files = {}
          /\ IF get_user(route.id) = None THEN route.dir = "none" ELSE route.dir = "removed"

\* C13 witness: the upload route has answered 500 after the file pipeline
\* raised, and the directory it had filled is gone.
C13_Witness ==
    /\ route.pc = "done" /\ route.kind = "process_audio_file"
    /\ route.filename = "plain" /\ route.pending = Raise("Exception")
    /\ route.dir = "removed" /\ route.answer = HTTPException(500)

\* C14: POST /process/process_url answers 404 exactly when no User has the
\* requested id, and then no run has started and the tables are as they were;
\* otherwise it answers 500 exactly when the pipeline returned None, and the
\* pipeline's two ids if not.
C14_ProcessUrlAnswers ==
    (route.kind = "process_url") =>
        /\ get_user(route.id) = None =>
              /\ \A r \in RunIds : pc[r] = "idle"
              /\ songs = route.tables.songs /\ splits = route.tables.splits
              /\ route.pc = "done" => route.answer = HTTPException(404)
        /\ (get_user(route.id) # None /\ route.pc = "done") =>
              \E r \in SoloRuns :
                  /\ Done(r) /\ user_id[r] = route.id
                  /\ route.answer = (IF result[r] = None THEN HTTPException(500) ELSE result[r])
                  /\ result[r] # None => Succeeded(r)

\* C14 witness: the route has answered with the ids of a run that succeeded
\* on tables that held rows.
C14_Witness ==
    /\ route.kind = "process_url" /\ route.pc = "done"
    /\ "songs_id" \in DOMAIN route.answer
    /\ route.tables.songs # {}

\* C15 as stated: the analytics route answers with the audio URL and the
\* description of the Split whose song_id is the requested song_id, and with
\* 404 when no Split has that song_id.
C15_SplitOfTheSong ==
    (route.kind = "analytics" /\ route.pc = "done") =>
        LET matching == {sp \in splits : sp.song_id = route.song_id}
        IN IF matching = {} THEN route.answer = HTTPException(404)
           ELSE \E sp \in matching : route.answer = InfoDTO(route.instrument, sp)

\* ---------------------------------------------------------- frame claims
\* The rows of a table are all kept by a step, each as it was.
RowsKept(rows, rows_after) ==
    \A x \in rows : x \in rows_after /\ \A y \in rows_after : y.id = x.id => y = x
\* The step in which the rewrite route returns the rewritten text.
RewriteReturns == rw.pc = "call" /\ "text" \in DOMAIN rw'.out

\* C16 as stated: no step changes a Song or a Split that exists, except that
\* the step in which the rewrite returns stores the rewritten text as the
\* lyrics of the addressed Song, and changes nothing else.
C16_Original ==
    [][/\ RowsKept(splits, splits')
       /\ IF RewriteReturns
          THEN /\ \E song \in songs' : song.id = rw.song_id /\ LyricsGet(song.lyrics) = rw'.out.text
               /\ RowsKept({song \in songs : song.id # rw.song_id}, songs')
          ELSE RowsKept(songs, songs')]_vars

\* C16 amended: no step of a pipeline run or of a route changes or removes a
\* Song or a Split that exists; the lyrics-rewrite route returns the rewritten
\* text without storing it, so it leaves both tables as they are.
C16_Amended ==
    [][/\ RowsKept(songs, songs') /\ RowsKept(splits, splits')
       /\ rw' # rw => (songs' = songs /\ splits' = splits)]_vars

\* C16 witness: the rewrite has returned a text other than the stored one for
\* a Song that has a Split, and the stored lyrics are what they were.
C16_Witness ==
    /\ rw.pc = "done" /\ "text" \in DOMAIN rw.out
    /\ rw.lrc # <<>> /\ rw.out.text # rw.lrc
    /\ \E song \in songs : song.id = rw.song_id /\ LyricsGet(song.lyrics) = rw.lrc
    /\ \E sp \in splits : sp.song_id = rw.song_id


\* C17: every Song has at most one Split, and every Split a run has added
\* was added by a run that succeeded, is filed under the Song that same run
\* committed and carries the stems of that run's session; the Song itself
\* carries the object that run uploaded.  A Split older than the runs is
\* filed under no Song of theirs.  Two runs at once, in any interleaving.
C17_OneSplitPerSongSameRun ==
    /\ \A song \in songs : Cardinality({sp \in splits : sp.song_id = song.id}) <= 1
    /\ \A sp \in splits :
          IF \E r \in RunIds : sp \in CreatedSplits(r)
          THEN \E r \in RunIds :
                  /\ Succeeded(r) /\ result[r].splits_id = sp.id
                  /\ sp.song_id = new_song[r] /\ result[r].songs_id = new_song[r]
                  /\ sp = create_split({row \in splits : row.id < sp.id},
                                       SplitCreateDTO(new_song[r], s3_urls[r], all_data[r]))
                  /\ \E song \in songs : song.id = new_song[r] /\ song.song_url = par[r].upload
                  /\ \A q \in RunIds \ {r} : new_song[q] # new_song[r]
          ELSE \A r \in RunIds : sp.song_id # new_song[r]

\* Both runs succeeded, the one that committed its Song first committing its
\* Split last.
C17_Witness ==
    /\ Succeeded("A") /\ Succeeded("B")
    /\ result["A"].songs_id < result["B"].songs_id
    /\ result["A"].splits_id > result["B"].splits_id


\* The objects a run has put into the bucket, by name, and the directory it
\* downloads into.
IsUrl(v) == "url" \in DOMAIN v
ObjectsWritten(r) ==
    {v.url : v \in {u \in {par[r].upload} \cup {s3_urls[r][s] : s \in Stems} : IsUrl(u)}}
ScratchDir(r) == original_title(r)[1]
\* The objects a row points to.
ObjectsOfSong(song) == {song.song_url.url}
ObjectsOfSplit(sp) == {sp.url[c].url : c \in {k \in UrlColumns : IsUrl(sp.url[k])}}

UploadFaults ==
    {<<"upload", "no_bucket">>, <<"upload", "ClientError">>, <<"upload", "S3UploadFailedError">>}
FirstPoolFaults == UploadFaults \cup {<<"analytics", "error">>, <<"separation", "raise">>}
TheSong(r) == CHOOSE song \in songs : song.id = new_song[r]

\* C19 as stated: a Song is committed only once the upload, the whole-track
\* analytics and the separation have all finished, and after a failure of
\* any of the three the run commits no Song and returns None.
C19_Original ==
    \A r \in RunIds :
        /\ new_song[r] # 0 => FirstPoolFinished(r)
        /\ faults[r] \cap FirstPoolFaults # {} =>
              /\ new_song[r] = 0 /\ CreatedSongs(r) = {}
              /\ Done(r) => result[r] = None

\* C19 amended: a Song is committed only once the three tasks have all
\* finished, none with an exception and the upload with a URL; after a failed
\* upload or a failed separation the run commits no Song and returns None;
\* a failed whole-track analysis is answered with an error dict, which does
\* not abort: the Song is committed with that dict as its description, and
\* the run succeeds when nothing else fails.
C19_Amended ==
    \A r \in RunIds :
        /\ new_song[r] # 0 =>
              /\ FirstPoolFinished(r) /\ ~FirstPoolRaised(r) /\ IsUrl(par[r].upload)
              /\ TheSong(r).description = par[r].analytics
        /\ faults[r] \cap (UploadFaults \cup {<<"separation", "raise">>}) # {} =>
              /\ new_song[r] = 0 /\ CreatedSongs(r) = {}
              /\ Done(r) => result[r] = None
        /\ (Done(r) /\ faults[r] = {<<"analytics", "error">>}) =>
              /\ Succeeded(r)
              /\ TheSong(r).description = Dict({"error", "file_path"})

\* The whole-track analysis failed and nothing else did: the run has
\* finished with both ids.
C19_Witness ==
    \E r \in RunIds :
        /\ Done(r) /\ faults[r] = {<<"analytics", "error">>} /\ Succeeded(r)
        /\ sep_out[r] = Stems


\* C20: the events of a run are ordered.  The tasks of the first pool run
\* (pc "parallel") and have results only after the download has left an
\* audio file; the stem tasks run (pc "stems") and finish only after the
\* Song is committed; the per-stem analytics run (pc "analysis") and have
\* results only after all five stem tasks have finished; and the Split is
\* committed (from pc "split") only after all eight analytics have answered.
C20_EventsInOrder ==
    \A r \in RunIds :
        /\ (pc[r] = "parallel" \/ par[r] # NoFutures) =>
              /\ pc[r] \notin {"idle", "download", "find"}
              /\ faults[r] \cap {<<"download", "raise">>, <<"find", "none">>} = {}
              /\ pc[r] = "parallel" => find_audio_file(TRUE, FALSE, listing[r]) # None
        /\ (pc[r] \in {"stems", "stems_raised"} \/ stem_done[r] # {}) =>
              /\ new_song[r] # 0 /\ FirstPoolFinished(r)
              /\ \E song \in songs : song.id = new_song[r]
        /\ (pc[r] = "analysis" \/ all_data[r] # NoData) => stem_done[r] = Stems
        /\ (pc[r] = "split" \/ (pc[r] # "idle" /\ CreatedSplits(r) # {})) =>
              \A i \in Instruments : all_data[r][i] # None

\* A run has gone through all stages and committed its Split.
C20_Witness ==
    \E r \in RunIds :
        /\ Succeeded(r) /\ CreatedSplits(r) # {} /\ stem_done[r] = Stems
        /\ \A i \in Instruments : all_data[r][i] # None


\* The description column the pipeline fills for each task name.
DescColumnOfTask(i) ==
    CASE i = "vocal" -> "vocals_description"
      [] i = "bass" -> "bass_description"
      [] i = "drums" -> "drum_description"
      [] i = "piano" -> "piano_description"
      [] i = "other" -> "other_description"
      [] i = "guitar" -> "guitar_description"
      [] i = "violin" -> "violin_description"
      [] i = "flute" -> "flute_description"
\* Whether the stem file an instrument's analysis reads was written.
StemFileWritten(r, i) ==
    IF i \in {"other", "guitar", "violin", "flute"} THEN "other" \in sep_out[r]
    ELSE IF i = "vocal" THEN "vocals" \in sep_out[r]
    ELSE i \in sep_out[r]

\* C21: whatever order the workers finish in, the mapping the analysis stage
\* returned has exactly the eight keys vocal, bass, drums, piano, other,
\* guitar, violin, flute, each with the answer of its own analysis function on
\* its own stem file (the other stem for guitar, violin and flute), and the
\* Split of a run that succeeded holds each answer in the description column
\* of the same instrument.
C21_EachResultUnderItsName ==
    \A r \in RunIds :
        /\ (pc[r] = "split" \/ Succeeded(r)) =>
              /\ DOMAIN all_data[r] = {"vocal", "bass", "drums", "piano", "other",
                                        "guitar", "violin", "flute"}
              /\ \A i \in DOMAIN all_data[r] :
                    all_data[r][i] = ExtractStemAnalytics(i, StemFileWritten(r, i),
                                                          <<"analysis", i>> \notin faults[r])
        /\ Succeeded(r) =>
              \A i \in DOMAIN all_data[r] :
                  TheSplit(r).desc[DescColumnOfTask(i)] = all_data[r][i]

\* A run succeeded in which all stems were written and, of the three
\* analyses reading the other stem, the violin's alone failed.
C21_Witness ==
    \E r \in RunIds :
        /\ Succeeded(r) /\ sep_out[r] = Stems
        /\ faults[r] = {<<"analysis", "violin">>}
        /\ TheSplit(r).desc["guitar_description"] = Dict(OkKeys("guitar"))
        /\ TheSplit(r).desc["violin_description"] = Dict({"error"})


\* The waits of an exponential backoff that starts at one second.
Backoff == <<1, 2, 4, 8, 16, 32>>

\* C22: the waits of a call are 1 s, 2 s, 4 s, ... in this order, one after
\* each attempt that is retried: while the loop runs every attempt made so
\* far was followed by its wait, and a call that has ended did not wait after
\* its last attempt, whether that succeeded or was the last one permitted.
C22_ExponentialBackoff ==
    tr.pc \in {"loop", "done"} =>
        /\ tr.waits = SubSeq(Backoff, 1, Len(tr.waits))
        /\ tr.pc = "loop" => Len(tr.waits) = Len(tr.log)
        /\ (tr.pc = "done" /\ tr.log # <<>>) => Len(tr.waits) = Len(tr.log) - 1
        /\ tr.log = <<>> => tr.waits = <<>>
        /\ Len(tr.waits) <= tr.max_retries

\* Two 5xx answers and then a transcript: the call waited 1 s and 2 s.
C22_Witness ==
    /\ tr.pc = "done" /\ tr.max_retries = 3
    /\ tr.log = <<[kind |-> "http", status |-> 503], [kind |-> "http", status |-> 500],
                  [kind |-> "http", status |-> 200]>>
    /\ tr.waits = <<1, 2>>
    /\ ~IsRaise(tr.outcome)


IsSuccess(resp) == resp.kind = "http" /\ resp.status < 400
IsRetried(resp) == resp.kind = "network" \/ Is5xx(resp)
TranscriptKeys == {"language", "duration", "original_lrc"}
TranscribeEndsWell ==
    tr.pc # "none" =>
        /\ Len(tr.log) <= tr.max_retries
        /\ \A k \in 1..Len(tr.log) :
              /\ (IsSuccess(tr.log[k]) \/ Is4xx(tr.log[k])) => (k = Len(tr.log) /\ tr.pc = "done")
              /\ k < Len(tr.log) => IsRetried(tr.log[k])
        /\ tr.pc = "done" =>
              /\ IsRaise(tr.outcome) \/ tr.outcome = Dict(TranscriptKeys)
              /\ tr.outcome = Dict(TranscriptKeys)
                    <=> (tr.log # <<>> /\ IsSuccess(tr.log[Len(tr.log)]))
              /\ (tr.log # <<>> /\ IsRetried(tr.log[Len(tr.log)])) =>
                    (Len(tr.log) = tr.max_retries /\ tr.outcome = HTTPException(500))
              /\ (tr.log # <<>> /\ Is4xx(tr.log[Len(tr.log)])) =>
                    tr.outcome = HTTPException(tr.log[Len(tr.log)].status)
              /\ tr.max_retries = 0 => (tr.log = <<>> /\ IsRaise(tr.outcome))

\* C23: whatever the service answers (5xx, network errors, 4xx, successes)
\* and for every max_retries >= 0, the call makes at most max_retries
\* requests; a success or a 4xx is its last request; every request before
\* the last was a 5xx or a network error, and a network error on the last
\* permitted attempt gives up like a 5xx; the call always ends, with a
\* transcript exactly when its last request succeeded and with a raised
\* error otherwise; with max_retries = 0 it makes no request and raises.
C23_TranscribeTerminates == []TranscribeEndsWell /\ <>(tr.pc = "done")

\* A network error, a 503 and then a 404 with three permitted attempts.
C23_Witness ==
    /\ tr.pc = "done" /\ tr.max_retries = 3
    /\ tr.log = <<[kind |-> "network"], [kind |-> "http", status |-> 503],
                  [kind |-> "http", status |-> 404]>>
    /\ tr.outcome = HTTPException(404)


\* The URL column of the Split named after each stem.
UrlColumnOfStem(s) ==
    CASE s = "vocals" -> "vocals_audio_url"
      [] s = "bass" -> "bass_audio_url"
      [] s = "drums" -> "drum_audio_url"
      [] s = "piano" -> "piano_audio_url"
      [] s = "other" -> "other_audio_url"
\* The URL of the object a run's upload of a stem's file makes.
StemUploadUrl(r, s) == upload_file_to_s3(TRUE, TRUE, "ok", <<"stems", r, s>>)

\* C24: in whatever order the five stem tasks finish, the dict of URLs
\* holds under a stem's name nothing before that stem's task has finished,
\* and then nothing or the URL of the upload of that stem's own file; the
\* Split of a run that succeeded holds in the column of each stem exactly
\* what the dict holds under that stem's name.
C24_UrlUnderItsStem ==
    \A r \in RunIds : \A s \in Stems :
        /\ s3_urls[r][s] \in {None, StemUploadUrl(r, s)}
        /\ s \notin stem_done[r] => s3_urls[r][s] = None
        /\ (s \in stem_done[r] /\ s \in sep_out[r] /\ faults[r] = {}) =>
              s3_urls[r][s] = StemUploadUrl(r, s)
        /\ Succeeded(r) => TheSplit(r).url[UrlColumnOfStem(s)] = s3_urls[r][s]

\* The other and drums tasks have finished first, the three submitted before
\* them are still running, and both URLs are filed.
C24_Witness ==
    \E r \in RunIds :
        /\ pc[r] = "stems" /\ stem_done[r] = {"other", "drums"} /\ sep_out[r] = Stems
        /\ s3_urls[r]["other"] = StemUploadUrl(r, "other")
        /\ s3_urls[r]["drums"] = StemUploadUrl(r, "drums")
        /\ s3_urls[r]["vocals"] = None


\* C25: every Song row carries a URL, never None; and a run whose upload of
\* the original answered None (a storage client error) commits no Song, adds
\* no row at all and returns None when it finishes.
C25_NoSongWithoutUrl ==
    /\ \A song \in songs : song.song_url # None /\ IsUrl(song.song_url)
    /\ \A r \in RunIds :
          par[r].upload = None =>
              /\ new_song[r] = 0 /\ CreatedSongs(r) = {} /\ CreatedSplits(r) = {}
              /\ pc[r] \in {"parallel", "song", "done"}
              /\ Done(r) => result[r] = None

\* The upload of the original answered None while the analytics and the
\* separation went well, and the run has finished on tables that held rows.
C25_Witness ==
    \E r \in RunIds :
        /\ Done(r) /\ par[r].upload = None /\ faults[r] = {<<"upload", "ClientError">>}
        /\ ~IsRaise(par[r].spleeter) /\ par[r].analytics = Dict(MusicKeys)
        /\ songs # {} /\ result[r] = None


\* The first pool's tasks were submitted: the download left an audio file.
FirstPoolSubmitted(r) ==
    /\ pc[r] \notin {"idle", "download", "find"}
    /\ faults[r] \cap {<<"download", "raise">>, <<"find", "none">>} = {}
\* The stem tasks were submitted: the Song is committed.
StemTasksSubmitted(r) == new_song[r] # 0
\* A worker task of the run is still executing.
TaskRunning(r) ==
    \/ FirstPoolSubmitted(r) /\ \E f \in {"upload", "analytics", "spleeter"} : par[r][f] = Pending
    \/ StemTasksSubmitted(r) /\ stem_done[r] # Stems

\* C26: while an upload, analytics, separation or stem task of a run is
\* still executing, the run's scratch directory exists and the run has
\* returned nothing; a run whose pool saw a task fail stays in the stage
\* (the scratch directory in place) until the siblings have finished.
C26_NoTaskOutlivesItsRun ==
    \A r \in RunIds :
        /\ TaskRunning(r) => (tmp[r] = "exists" /\ ~Done(r) /\ result[r] # None)
        /\ (tmp[r] = "removed" \/ Done(r)) => ~TaskRunning(r)
        /\ pc[r] = "stems_raised" => tmp[r] = "exists"

\* The conversion of a stem raised in the second pool; the run has returned
\* None after the other four tasks had finished.
C26_Witness ==
    \E r \in RunIds :
        /\ Done(r) /\ result[r] = None /\ tmp[r] = "removed"
        /\ faults[r] = {<<"convert", "bass">>}
        /\ stem_done[r] = Stems


\* The stems whose upload was answered with a botocore ClientError.
ClientErrorStems(r) == {s \in Stems : <<"ClientError", s>> \in faults[r]}

\* C27: a stem whose file was written and whose upload failed with a
\* ClientError has no URL, like a missing stem; when nothing else went
\* wrong the run succeeds, and its Split holds None in that stem's column
\* and, for every other stem that was written, the URL of that stem.
C27_FailedStemUploadTolerated ==
    \A r \in RunIds :
        /\ \A s \in ClientErrorStems(r) : s \in sep_out[r] /\ s3_urls[r][s] = None
        /\ (Done(r) /\ ClientErrorStems(r) # {}
               /\ faults[r] \subseteq {<<"ClientError", s>> : s \in Stems}) =>
              /\ Succeeded(r)
              /\ \A s \in Stems :
                    TheSplit(r).url[UrlColumnOfStem(s)] =
                        IF s \in ClientErrorStems(r) \/ s \notin sep_out[r] THEN None
                        ELSE [url |-> <<"stems", r, s>>]

\* All five stems were written, the upload of the drums stem alone failed
\* with a ClientError, and the run has succeeded.
C27_Witness ==
    \E r \in RunIds :
        /\ Succeeded(r) /\ sep_out[r] = Stems /\ faults[r] = {<<"ClientError", "drums">>}
        /\ TheSplit(r).url["drum_audio_url"] = None
        /\ TheSplit(r).url["vocals_audio_url"] # None


\* The lines of a text, and the start time a line's timestamp shows.
RECURSIVE SplitLines(_)
SplitLines(text) ==
    IF \A k \in 1..Len(text) : text[k] # 10 THEN <<text>>
    ELSE LET k == CHOOSE j \in 1..Len(text) :
                      text[j] = 10 /\ \A h \in 1..(j - 1) : text[h] # 10
         IN <<SubSeq(text, 1, k - 1)>> \o SplitLines(SubSeq(text, k + 1, Len(text)))
LinesOf(text) == IF text = <<>> THEN <<>> ELSE SplitLines(text)
RECURSIVE NumberOf(_)
NumberOf(digits) ==
    IF digits = <<>> THEN 0
    ELSE 10 * NumberOf(SubSeq(digits, 1, Len(digits) - 1)) + (digits[Len(digits)] - 48)
TimeOfLine(line) ==
    LET colon == CHOOSE j \in 1..Len(line) : line[j] = 58 /\ \A h \in 1..(j - 1) : line[h] # 58
    IN 6000 * NumberOf(SubSeq(line, 2, colon - 1))
         + 100 * NumberOf(SubSeq(line, colon + 1, colon + 2))
         + NumberOf(SubSeq(line, colon + 4, colon + 5))

\* C28: the text returned has one line for each segment that has a start
\* time, its timestamp showing that start time (segments without one are
\* skipped, an empty text still gives its line), and the lines follow each
\* other in non-decreasing order of start time, whatever the order of the
\* segments.
C28_OneLinePerSegmentInOrder ==
    lrc.pc = "done" =>
        LET lines == LinesOf(lrc.out)
            timed == {k \in 1..Len(lrc.segments) : HasStart(lrc.segments[k])}
        IN /\ Len(lines) = Cardinality(timed)
           /\ \A t \in StartTimes :
                 Cardinality({k \in 1..Len(lines) : TimeOfLine(lines[k]) = t})
                    = Cardinality({k \in timed : lrc.segments[k].start = t})
           /\ \A k \in 1..(Len(lines) - 1) : TimeOfLine(lines[k]) <= TimeOfLine(lines[k + 1])


\* C29: whatever signups and Google sign-ins were made, also two at a
\* time, no two User rows share an email and no two share a username; a signup
\* answered 400 named an email a User has, and the users table is what it was
\* when the signup found that User (a step that answers 400 changes no row).
UsersUnique ==
    \A u \in auth.users : \A v \in auth.users :
        (u.email = v.email \/ u.username = v.username \/ u.id = v.id) => u = v
SignupRefused(k) ==
    /\ InFlight(k, "signup", "received")
    /\ \E u \in auth.users : u.email = auth.reqs[k].email
    /\ auth'.reqs[k].pc # "received"
SignupRefusals ==
    \A k \in Slots :
        SignupRefused(k) => /\ auth'.reqs[k].answer = Answer(400)
                            /\ auth'.users = auth.users
C29_UsersStayUnique == [][UsersUnique /\ UsersUnique' /\ SignupRefusals]_vars

\* Two Users exist, and a signup with the email of one of them has been
\* answered 400.
C29_Witness ==
    /\ Cardinality(auth.users) = 2
    /\ \E k \in Slots :
          /\ InFlight(k, "signup", "done") /\ auth.reqs[k].answer = Answer(400)
          /\ \E u \in auth.users : u.email = auth.reqs[k].email /\ u.username # auth.reqs[k].username


\* The User rows holding an email.
UsersWithEmail(email) == {u \in auth.users : u.email = email}

\* Every answered Google sign-in with a verified email left exactly one User
\* with that email and answered with a token.
GoogleProvisionsOnce ==
    \A k \in Slots :
        (InFlight(k, "google", "done") /\ "email" \in DOMAIN auth.reqs[k].credential) =>
            /\ Cardinality(UsersWithEmail(auth.reqs[k].credential.email)) = 1
            /\ \E u \in auth.users : auth.reqs[k].answer = TokenAnswer(u)

\* Every token issued has the id of the User it was issued to as subject.
TokensCarryUserId ==
    /\ \A t \in auth.issued :
          \E u \in auth.users : u.email = t.email /\ t.access_token.sub = str(u.id)
    /\ \A k \in Slots :
          (InFlight(k, "signin", "done") /\ auth.reqs[k].answer # Answer(401)) =>
              \E u \in auth.users : /\ u.username = auth.reqs[k].username
                                    /\ auth.reqs[k].answer.access_token.sub = str(u.id)

\* The step that answers GET /auth/users/me answers a valid token with the
\* User whose id is its subject, and a token of no User, or an invalid one,
\* with 401.
TokensResolve ==
    \A k \in Slots :
        (InFlight(k, "me", "received") /\ auth'.reqs[k].pc = "done") =>
            LET token == auth.reqs[k].token
                owners == {u \in auth.users : str(u.id) = token.sub}
            IN IF token.valid /\ owners # {}
               THEN \E u \in owners : auth'.reqs[k].answer = UserAnswer(u)
               ELSE auth'.reqs[k].answer = Answer(401)

\* C30: a Google sign-in with an email that has no User creates exactly
\* one User and later ones with that email create none, so every answered
\* Google sign-in leaves exactly one User with its email and a token for it;
\* the tokens of signin and of Google sign-in carry the user's id as subject,
\* GET /auth/users/me resolves them to that User, and a subject of no User is
\* answered 401.
C30_GoogleSignInCreatesOneUser ==
    [][GoogleProvisionsOnce' /\ TokensCarryUserId' /\ TokensResolve]_vars

====
